---- MODULE Spec2Model ----
(***************************************************************************)
(* Geo broadcasting system: geofence check -> event queue (Redis list) ->  *)
(* webhook delivery worker, and the cache-aside read path of incidents.    *)
(*                                                                         *)
(* The specifications share one state:                                     *)
(*   Spec          the geofence check pipeline (CheckLocation, Publish)    *)
(*   SpecWorker    the event queue and the webhook delivery worker         *)
(*   FairWorker    SpecWorker without cancellation, with fair scheduling   *)
(*   SpecIncident  incident reads and mutations through store and cache    *)
(***************************************************************************)
EXTENDS Integers, Sequences, FiniteSets, TLC

\* ------------------------------------------------------------------------
\* Bounds of the model
\* ------------------------------------------------------------------------
MaxCalls == 2          \* CheckLocation calls per behaviour
MaxPush == 2           \* payloads pushed onto the queue per behaviour (worker specs)
MaxRetriesBound == 2   \* largest configured WebhookMaxRetries
MaxPopErrors == 1      \* Redis errors seen by BRPop per behaviour
MaxOps == 3            \* incident service calls per behaviour
MaxRecordOps == 2      \* incident, list and stats operations per behaviour (SpecRecords)

\* incident ids the table can hold
Ids == {1, 2}

VARIABLES
    store,      \* incidents table: id -> row or NoRow
    cache,      \* Redis keys incident:<id> -> cached incident or NoEntry
    checks,     \* location_checks table, in insertion order
    queue,      \* Redis list webhook_events; index 1 is the left end
    pushLog,    \* every Publish invocation: call, event, outcome
    now,        \* logical clock: number of clock reads so far
    calls,      \* CheckLocation calls, in flight and returned
    cfg,        \* the worker's configuration
    worker,     \* the delivery worker goroutine
    deliveries, \* per popped payload: attempts made, outcomes, state
    ctxDone,    \* the process-wide context is cancelled
    ops,        \* incident service calls: per handler, the call it runs or ran last
    nops,       \* incident service calls taken up so far
    committed,  \* per id: the latest mutation that returned success with the
                \* cache invalidated (version written, field values)
    main,       \* where func main is: serving, shutting down, returned, exited
    http        \* the request the router handled last and what became of it

vars == <<store, cache, checks, queue, pushLog, now, calls, cfg, worker,
          deliveries, ctxDone, ops, nops, committed, main, http>>

workerVars == <<cfg, worker, deliveries, ctxDone>>
incidentVars == <<cache, ops, nops, committed>>
procVars == <<main, http>>

\* ------------------------------------------------------------------------
\* models.Incident, the incidents table and the spatial predicate
\* ------------------------------------------------------------------------
NoRow == [kind |-> "norow"]
NoEntry == [kind |-> "noentry"]

\* ST_MakePoint(x, y): x is the longitude, y the latitude
ST_MakePoint(x, y) == [x |-> x, y |-> y]
ST_X(p) == p.x
ST_Y(p) == p.y

Abs(n) == IF n < 0 THEN -n ELSE n

\* distance in meters between two points of the model's grid (one grid step
\* is 1000 m); stands for the geodesic distance PostGIS computes on geography
Distance(a, b) == 1000 * (Abs(a.x - b.x) + Abs(a.y - b.y))

\* faulty variant: the boundary is left out
ST_DWithinStrict(a, b, d) == Distance(a, b) < d

\* ST_DWithin(g1, g2, d): the distance is at most d
ST_DWithin(a, b, d) == Distance(a, b) <= d

\* a row of table incidents as INSERT writes it
IncidentRow(id, name, description, lat, lon, radius, status, created, updated) ==
    [kind |-> "row", id |-> id, name |-> name, description |-> description,
     location |-> ST_MakePoint(lon, lat), radius_meters |-> radius,
     status |-> status, created_at |-> created, updated_at |-> updated]

\* rows.Scan of the SELECT list into a models.Incident
ScanIncident(row) ==
    [ID |-> row.id, Name |-> row.name, Description |-> row.description,
     Latitude |-> ST_Y(row.location), Longitude |-> ST_X(row.location),
     RadiusMeters |-> row.radius_meters, Status |-> row.status,
     CreatedAt |-> row.created_at, UpdatedAt |-> row.updated_at]

\* faulty variant: the status column is not tested
MatchesLocationAnyStatus(row, lat, lon) ==
    /\ row # NoRow
    /\ ST_DWithin(row.location, ST_MakePoint(lon, lat), row.radius_meters)

\* the WHERE clause of FindActiveLocation, called with ($1, $2) = (lon, lat)
MatchesActiveLocation(row, lat, lon) ==
    /\ row # NoRow
    /\ row.status = "active"
    /\ ST_DWithin(row.location, ST_MakePoint(lon, lat), row.radius_meters)

\* the incidents FindActiveLocation selects, as a set
FindActiveLocation(st, lat, lon) ==
    {ScanIncident(st[id]) : id \in {i \in Ids : MatchesActiveLocation(st[i], lat, lon)}}

\* the query has no ORDER BY: the rows come back in any order
Orderings(S) ==
    {s \in [1..Cardinality(S) -> S] :
        \A i, j \in 1..Cardinality(S) : i # j => s[i] # s[j]}

\* ------------------------------------------------------------------------
\* webhook.WebhookEvent, its JSON form and the Redis list
\* ------------------------------------------------------------------------
WebhookEvent(userID, lat, lon, isDanger, ts, incidents) ==
    [UserID |-> userID, Latitude |-> lat, Longitude |-> lon,
     IsDangerous |-> isDanger, Timestamp |-> ts, Incidents |-> incidents]

\* json.Marshal(event): the incidents key is omitted when the list is empty
Marshal(e) ==
    [json |-> TRUE, user_id |-> e.UserID, latitude |-> e.Latitude,
     longitude |-> e.Longitude, is_dangerous |-> e.IsDangerous,
     timestamp |-> e.Timestamp,
     has_incidents |-> Len(e.Incidents) > 0,
     incidents |-> e.Incidents]

\* a payload that is not the JSON of a WebhookEvent
Malformed == [json |-> FALSE]

\* json.Unmarshal succeeds
CanUnmarshal(p) == p.json

\* json.Unmarshal(payload, &event)
Unmarshal(p) ==
    WebhookEvent(p.user_id, p.latitude, p.longitude, p.is_dangerous, p.timestamp,
                 IF p.has_incidents THEN p.incidents ELSE <<>>)

\* LPUSH key value: the value becomes the leftmost element
LPush(q, item) == <<item>> \o q

\* ------------------------------------------------------------------------
\* incidentService.CheckLocation
\* ------------------------------------------------------------------------
\* faulty variant: one incident is not yet a danger
IsDangerMany(activeIncident) == Len(activeIncident) > 1

\* faulty variant: every check is taken for a danger
IsDangerAlways(activeIncident) == TRUE

\* isDanger := len(activeIncident) > 0
IsDanger(activeIncident) == Len(activeIncident) > 0

\* the models.LocationCheck the service builds
LocationCheck(userID, lat, lon, isDanger) ==
    [UserID |-> userID, Latitude |-> lat, Longitude |-> lon, IsDangerous |-> isDanger]

\* the row INSERT INTO location_checks writes, with ($2, $3) = (lon, lat)
LocationCheckRow(id, check, at, call) ==
    [id |-> id, user_id |-> check.UserID,
     location |-> ST_MakePoint(check.Longitude, check.Latitude),
     is_dangerous |-> check.IsDangerous, checked_at |-> at, call |-> call]

NoRet == [returned |-> FALSE]
RetOk(list) == [returned |-> TRUE, err |-> FALSE, isNil |-> FALSE, incidents |-> list]
RetErr == [returned |-> TRUE, err |-> TRUE, isNil |-> TRUE, incidents |-> <<>>]

\* a request enters CheckLocation with validated input
CheckInputs ==
    {[userID |-> "u1", lat |-> 0, lon |-> 0],
     [userID |-> "u2", lat |-> 0, lon |-> 1],
     [userID |-> "u1", lat |-> 1, lon |-> 1]}

CLStart ==
    /\ Len(calls) < MaxCalls
    /\ \E in \in CheckInputs :
        calls' = Append(calls,
            [pc |-> "find", userID |-> in.userID, lat |-> in.lat, lon |-> in.lon,
             queried |-> FALSE, activeIncident |-> <<>>, isDanger |-> FALSE,
             saves |-> 0, saved |-> FALSE, published |-> FALSE, ret |-> NoRet])
    /\ UNCHANGED <<store, checks, queue, pushLog, now>>
    /\ UNCHANGED <<workerVars, incidentVars>>
    /\ UNCHANGED procVars

\* faulty variant: a failed query is treated as an empty result
CLFindFailContinues(c) ==
    /\ calls[c].pc = "find"
    /\ calls' = [calls EXCEPT ![c].pc = "save"]
    /\ UNCHANGED <<store, checks, queue, pushLog, now>>
    /\ UNCHANGED <<workerVars, incidentVars>>
    /\ UNCHANGED procVars

\* repo.FindActiveLocation fails: the call returns the error
CLFindFail(c) ==
    /\ calls[c].pc = "find"
    /\ calls' = [calls EXCEPT ![c].pc = "done", ![c].ret = RetErr]
    /\ UNCHANGED <<store, checks, queue, pushLog, now>>
    /\ UNCHANGED <<workerVars, incidentVars>>
    /\ UNCHANGED procVars

\* repo.FindActiveLocation succeeds
CLFind(c) ==
    /\ calls[c].pc = "find"
    /\ \E found \in Orderings(FindActiveLocation(store, calls[c].lat, calls[c].lon)) :
        calls' = [calls EXCEPT ![c].pc = "save", ![c].queried = TRUE,
                               ![c].activeIncident = found,
                               ![c].isDanger = IsDanger(found)]
    /\ UNCHANGED <<store, checks, queue, pushLog, now>>
    /\ UNCHANGED <<workerVars, incidentVars>>
    /\ UNCHANGED procVars

\* faulty variant: a safe check is published too
AfterSaveAlwaysPublish(call) == [call EXCEPT !.pc = "publish"]

\* faulty variant: a failed audit save fails the call
AfterSaveFailFast(call) ==
    IF ~call.saved
    THEN [call EXCEPT !.pc = "done",
                      !.ret = [returned |-> TRUE, err |-> TRUE, isNil |-> TRUE, incidents |-> <<>>]]
    ELSE IF call.isDanger
         THEN [call EXCEPT !.pc = "publish"]
         ELSE [call EXCEPT !.pc = "done",
                           !.ret = [returned |-> TRUE, err |-> FALSE, isNil |-> FALSE,
                                    incidents |-> call.activeIncident]]

\* faulty variant: a failed audit save is tried once more
AfterSaveRetriesFailedSave(call) ==
    IF ~call.saved /\ call.saves < 2
    THEN [call EXCEPT !.pc = "save"]
    ELSE IF call.isDanger
         THEN [call EXCEPT !.pc = "publish"]
         ELSE [call EXCEPT !.pc = "done",
                           !.ret = [returned |-> TRUE, err |-> FALSE, isNil |-> FALSE,
                                    incidents |-> call.activeIncident]]

\* where CheckLocation goes after SaveLocationCheck returned
AfterSave(call) ==
    IF call.isDanger
    THEN [call EXCEPT !.pc = "publish"]
    ELSE [call EXCEPT !.pc = "done", !.ret = RetOk(call.activeIncident)]

\* faulty variant: the save overwrites the newest record instead of adding one
CLSaveUpserts(c, ok) ==
    /\ calls[c].pc = "save"
    /\ LET call == calls[c]
           check == LocationCheck(call.userID, call.lat, call.lon, call.isDanger)
       IN /\ checks' = IF ok
                       THEN IF checks # <<>>
                            THEN [checks EXCEPT ![Len(checks)] =
                                    LocationCheckRow(Len(checks), check, now, c)]
                            ELSE Append(checks, LocationCheckRow(1, check, now, c))
                       ELSE checks
          /\ now' = IF ok THEN now + 1 ELSE now
          /\ calls' = [calls EXCEPT ![c] =
                        AfterSave([call EXCEPT !.saves = call.saves + 1, !.saved = ok])]
    /\ UNCHANGED <<store, queue, pushLog>>
    /\ UNCHANGED <<workerVars, incidentVars>>
    /\ UNCHANGED procVars

\* repo.SaveLocationCheck: the INSERT succeeds or fails; a failure is logged
CLSave(c, ok) ==
    /\ calls[c].pc = "save"
    /\ LET call == calls[c]
           check == LocationCheck(call.userID, call.lat, call.lon, call.isDanger)
       IN /\ checks' = IF ok
                       THEN Append(checks, LocationCheckRow(Len(checks) + 1, check, now, c))
                       ELSE checks
          /\ now' = IF ok THEN now + 1 ELSE now
          /\ calls' = [calls EXCEPT ![c] =
                        AfterSave([call EXCEPT !.saves = call.saves + 1, !.saved = ok])]
    /\ UNCHANGED <<store, queue, pushLog>>
    /\ UNCHANGED <<workerVars, incidentVars>>
    /\ UNCHANGED procVars

\* the event CheckLocation builds for a dangerous check
EventOf(call, ts) ==
    WebhookEvent(call.userID, call.lat, call.lon, call.isDanger, ts, call.activeIncident)

\* faulty variant: the push waits until the worker is blocked in BRPop
CLPublishWaitsForWorker(c, ok) ==
    /\ calls[c].pc = "publish"
    /\ worker.pc = "brpop"
    /\ LET call == calls[c]
           event == EventOf(call, now)
       IN /\ queue' = IF ok
                      THEN LPush(queue, [payload |-> Marshal(event), push |-> Len(pushLog) + 1])
                      ELSE queue
          /\ pushLog' = Append(pushLog, [call |-> c, event |-> event, ok |-> ok])
          /\ now' = now + 1
          /\ calls' = [calls EXCEPT ![c].pc = "done", ![c].published = ok,
                                    ![c].ret = RetOk(call.activeIncident)]
    /\ UNCHANGED <<store, checks>>
    /\ UNCHANGED <<workerVars, incidentVars>>
    /\ UNCHANGED procVars

\* webhookPublisher.Publish: json.Marshal, then LPUSH; a failure is logged
CLPublish(c, ok) ==
    /\ calls[c].pc = "publish"
    /\ LET call == calls[c]
           event == EventOf(call, now)
       IN /\ queue' = IF ok
                      THEN LPush(queue, [payload |-> Marshal(event), push |-> Len(pushLog) + 1])
                      ELSE queue
          /\ pushLog' = Append(pushLog, [call |-> c, event |-> event, ok |-> ok])
          /\ now' = now + 1
          /\ calls' = [calls EXCEPT ![c].pc = "done", ![c].published = ok,
                                    ![c].ret = RetOk(call.activeIncident)]
    /\ UNCHANGED <<store, checks>>
    /\ UNCHANGED <<workerVars, incidentVars>>
    /\ UNCHANGED procVars

\* ------------------------------------------------------------------------
\* WebhookWorker: Start (the consumer loop) and processWebhookEvent
\* ------------------------------------------------------------------------
\* HTTP status codes the subscriber may answer with
Statuses == {200, 299, 300}

\* what one pass of the delivery loop meets: the request cannot be built,
\* httpClient.Do returns an error, or a response arrives
BuildError == [kind |-> "build", status |-> 0]
TransportError == [kind |-> "transport", status |-> 0]
Response(code) == [kind |-> "status", status |-> code]
Responses == {Response(code) : code \in Statuses}

\* faulty variant: a redirect counts as delivered too
IsSuccessAnyStatus(code) == code >= 200

\* faulty variant: only 200 counts as delivered
IsSuccess200Only(code) == code = 200

\* resp.StatusCode >= 200 && resp.StatusCode < 300
IsSuccess(code) == code >= 200 /\ code < 300

\* faulty variant: BLPOP: the consumer pops at the end the producers push to
PopIndexLeft(q) == 1

\* BRPOP takes the rightmost element
PopIndex(q) == Len(q)

RemoveAt(q, n) == SubSeq(q, 1, n - 1) \o SubSeq(q, n + 1, Len(q))

\* faulty variant: the loop makes one pass too many
NextPcAfterLoopOffByOne(i, maxRetries) == IF i <= maxRetries THEN "attempt" ELSE "select"

\* faulty variant: the worker goroutine ends when an event exhausts its retries
NextPcAfterLoopStops(i, maxRetries) == IF i < maxRetries THEN "attempt" ELSE "stopped"

\* the loop condition i < maxRetries: another pass, or the loop ends, the
\* failure is logged and Start goes on to its next iteration
NextPcAfterLoop(i, maxRetries) == IF i < maxRetries THEN "attempt" ELSE "select"

\* the state of a delivery once the loop counter has reached i
StateAfterLoop(i, maxRetries) ==
    IF NextPcAfterLoop(i, maxRetries) = "attempt" THEN "Attempting" ELSE "Exhausted"

\* faulty variant: the delay is never doubled
NextDelayConstant(d) == d

\* baseDelay *= 2
NextDelay(d) == d * 2

Cur == Len(deliveries)

\* the process runs: main has not returned and os.Exit was not called
ProcessAlive == main \notin {"exited", "fatal"}

\* select { case <-ctx.Done(): return; default: BRPop ... }
WSelect ==
    /\ ProcessAlive
    /\ worker.pc = "select"
    /\ worker' = [worker EXCEPT !.pc = IF ctxDone THEN "stopped" ELSE "brpop"]
    /\ UNCHANGED <<queue, pushLog, now, cfg, deliveries, ctxDone>>
    /\ UNCHANGED <<store, checks, calls, incidentVars>>
    /\ UNCHANGED procVars

\* BRPop returns an element: unmarshal it and enter processWebhookEvent
\* faulty variant: the retry loop is entered whether a URL is configured or not
WPopIgnoresEmptyURL ==
    /\ ProcessAlive
    /\ worker.pc = "brpop"
    /\ queue # <<>>
    /\ LET el == queue[PopIndex(queue)]
           entry == [push |-> el.push, payload |-> el.payload, outcomes |-> <<>>,
                     requests |-> <<>>, sleeps |-> <<>>]
       IN /\ queue' = RemoveAt(queue, PopIndex(queue))
          /\ IF ~CanUnmarshal(el.payload)
             THEN /\ deliveries' = Append(deliveries, entry @@ [state |-> "Malformed"])
                  /\ worker' = [worker EXCEPT !.pc = "select"]
             ELSE /\ deliveries' = Append(deliveries,
                        entry @@ [state |-> StateAfterLoop(0, cfg.WebhookMaxRetries)])
                  /\ worker' = [worker EXCEPT
                        !.pc = NextPcAfterLoop(0, cfg.WebhookMaxRetries),
                        !.payload = el.payload, !.i = 0,
                        !.baseDelay = cfg.WebhookBaseDelay]
    /\ UNCHANGED <<pushLog, now, cfg, ctxDone>>
    /\ UNCHANGED <<store, checks, calls, incidentVars>>
    /\ UNCHANGED procVars

WPop ==
    /\ ProcessAlive
    /\ worker.pc = "brpop"
    /\ queue # <<>>
    /\ LET el == queue[PopIndex(queue)]
           entry == [push |-> el.push, payload |-> el.payload, outcomes |-> <<>>,
                     requests |-> <<>>, sleeps |-> <<>>]
       IN /\ queue' = RemoveAt(queue, PopIndex(queue))
          /\ IF ~CanUnmarshal(el.payload)
             THEN /\ deliveries' = Append(deliveries, entry @@ [state |-> "Malformed"])
                  /\ worker' = [worker EXCEPT !.pc = "select"]
             ELSE IF cfg.WebhookURL = ""
             THEN /\ deliveries' = Append(deliveries, entry @@ [state |-> "Skipped"])
                  /\ worker' = [worker EXCEPT !.pc = "select"]
             ELSE /\ deliveries' = Append(deliveries,
                        entry @@ [state |-> StateAfterLoop(0, cfg.WebhookMaxRetries)])
                  /\ worker' = [worker EXCEPT
                        !.pc = NextPcAfterLoop(0, cfg.WebhookMaxRetries),
                        !.payload = el.payload, !.i = 0,
                        !.baseDelay = cfg.WebhookBaseDelay]
    /\ UNCHANGED <<pushLog, now, cfg, ctxDone>>
    /\ UNCHANGED <<store, checks, calls, incidentVars>>
    /\ UNCHANGED procVars

\* faulty variant: a Redis error ends the consumer loop
WPopErrStops ==
    /\ ProcessAlive
    /\ worker.pc = "brpop"
    /\ worker.popErrors < MaxPopErrors
    /\ worker' = [worker EXCEPT !.pc = "stopped", !.popErrors = worker.popErrors + 1]
    /\ UNCHANGED <<queue, pushLog, now, cfg, deliveries, ctxDone>>
    /\ UNCHANGED <<store, checks, calls, incidentVars>>
    /\ UNCHANGED procVars

\* BRPop fails with a Redis error: log, sleep WebhookTimeout, continue
WPopErr ==
    /\ ProcessAlive
    /\ worker.pc = "brpop"
    /\ worker.popErrors < MaxPopErrors
    /\ worker' = [worker EXCEPT !.pc = "select", !.popErrors = worker.popErrors + 1]
    /\ UNCHANGED <<queue, pushLog, now, cfg, deliveries, ctxDone>>
    /\ UNCHANGED <<store, checks, calls, incidentVars>>
    /\ UNCHANGED procVars

\* faulty variant: context.Canceled takes the error path (log, sleep)
WPopCancelledAsError ==
    /\ ProcessAlive
    /\ worker.pc = "brpop"
    /\ ctxDone
    /\ worker' = [worker EXCEPT !.pc = "select", !.cancelledPops = @ + 1,
                                !.popErrors = @ + 1]
    /\ UNCHANGED <<queue, pushLog, now, cfg, deliveries, ctxDone>>
    /\ UNCHANGED <<store, checks, calls, incidentVars>>
    /\ UNCHANGED procVars

\* BRPop fails with context.Canceled: continue
WPopCancelled ==
    /\ ProcessAlive
    /\ worker.pc = "brpop"
    /\ ctxDone
    /\ worker' = [worker EXCEPT !.pc = "select", !.cancelledPops = @ + 1]
    /\ UNCHANGED <<queue, pushLog, now, cfg, deliveries, ctxDone>>
    /\ UNCHANGED <<store, checks, calls, incidentVars>>
    /\ UNCHANGED procVars

\* generateHMACSHA256(data, secret): the lowercase hex of the HMAC-SHA256 of
\* data under secret; the MAC is ideal: it is determined by, and determines,
\* the key and the data
generateHMACSHA256(data, secret) ==
    [hmac |-> "sha256", key |-> secret, data |-> data, encoding |-> "hex"]

NoHeaders == [n \in {} |-> ""]

\* req.Header.Set(name, value)
SetHeader(h, name, value) ==
    [n \in DOMAIN h \cup {name} |-> IF n = name THEN value ELSE h[n]]

\* faulty variant: the event is serialized again for the body and the signature
NewRequestReserialized(url, rawPayload, secret) ==
    LET body == Marshal(Unmarshal(rawPayload))
        base == SetHeader(NoHeaders, "Content-Type", "application/json")
    IN [method |-> "POST", url |-> url, body |-> body,
        headers |-> IF secret # ""
                    THEN SetHeader(base, "X-Webhook-Signature",
                                   generateHMACSHA256(body, secret))
                    ELSE base]

\* the request of one pass: POST of the raw payload, Content-Type, and the
\* signature header when WebhookSecret is set
NewRequest(url, rawPayload, secret) ==
    LET base == SetHeader(NoHeaders, "Content-Type", "application/json")
    IN [method |-> "POST", url |-> url, body |-> rawPayload,
        headers |-> IF secret # ""
                    THEN SetHeader(base, "X-Webhook-Signature",
                                   generateHMACSHA256(rawPayload, secret))
                    ELSE base]

\* what one pass can meet: an unparsable URL fails http.NewRequestWithContext,
\* a cancelled context fails httpClient.Do
PassOutcomes ==
    IF cfg.WebhookURL = "bad" THEN {BuildError}
    ELSE IF ctxDone THEN {TransportError}
    ELSE {TransportError} \cup Responses

\* one pass of the loop up to the response
WAttempt(r) ==
    /\ ProcessAlive
    /\ worker.pc = "attempt"
    /\ r \in PassOutcomes
    /\ LET req == NewRequest(cfg.WebhookURL, worker.payload, cfg.WebhookSecret)
           seen == [deliveries[Cur] EXCEPT
                        !.outcomes = Append(@, r),
                        !.requests = IF r.kind = "build" THEN @ ELSE Append(@, req)]
       IN
       IF r.kind = "build"
       THEN \* continue: no sleep, the counter advances
            /\ worker' = [worker EXCEPT
                    !.i = worker.i + 1,
                    !.pc = NextPcAfterLoop(worker.i + 1, cfg.WebhookMaxRetries)]
            /\ deliveries' = [deliveries EXCEPT ![Cur] =
                    [seen EXCEPT !.state = StateAfterLoop(worker.i + 1, cfg.WebhookMaxRetries)]]
       ELSE IF r.kind = "status" /\ IsSuccess(r.status)
       THEN \* delivered: return
            /\ worker' = [worker EXCEPT !.pc = "select"]
            /\ deliveries' = [deliveries EXCEPT ![Cur] = [seen EXCEPT !.state = "Delivered"]]
       ELSE \* transport error or another status: time.Sleep(baseDelay)
            /\ worker' = [worker EXCEPT !.pc = "sleep"]
            /\ deliveries' = [deliveries EXCEPT ![Cur] = seen]
    /\ UNCHANGED <<queue, pushLog, now, cfg, ctxDone>>
    /\ UNCHANGED <<store, checks, calls, incidentVars>>
    /\ UNCHANGED procVars

\* the sleep ends: double the delay and go to the next pass
\* faulty variant: after the sleep the worker goes back to the consumer
\* loop and leaves the retries of the event for later
WSleepYields ==
    /\ ProcessAlive
    /\ worker.pc = "sleep"
    /\ worker' = [worker EXCEPT
            !.baseDelay = NextDelay(worker.baseDelay),
            !.i = worker.i + 1,
            !.pc = "select"]
    /\ deliveries' = [deliveries EXCEPT ![Cur] =
            [@ EXCEPT !.sleeps = Append(@, worker.baseDelay),
                      !.state = StateAfterLoop(worker.i + 1, cfg.WebhookMaxRetries)]]
    /\ UNCHANGED <<queue, pushLog, now, cfg, ctxDone>>
    /\ UNCHANGED <<store, checks, calls, incidentVars>>
    /\ UNCHANGED procVars

WSleep ==
    /\ ProcessAlive
    /\ worker.pc = "sleep"
    /\ worker' = [worker EXCEPT
            !.baseDelay = NextDelay(worker.baseDelay),
            !.i = worker.i + 1,
            !.pc = NextPcAfterLoop(worker.i + 1, cfg.WebhookMaxRetries)]
    /\ deliveries' = [deliveries EXCEPT ![Cur] =
            [@ EXCEPT !.sleeps = Append(@, worker.baseDelay),
                      !.state = StateAfterLoop(worker.i + 1, cfg.WebhookMaxRetries)]]
    /\ UNCHANGED <<queue, pushLog, now, cfg, ctxDone>>
    /\ UNCHANGED <<store, checks, calls, incidentVars>>
    /\ UNCHANGED procVars

\* <-quit: main receives SIGINT or SIGTERM and calls srv.Shutdown
Signal ==
    /\ main = "serving"
    /\ main' = "shutdown"
    /\ UNCHANGED <<queue, pushLog, now, cfg, deliveries, worker, ctxDone, http>>
    /\ UNCHANGED <<store, checks, calls, incidentVars>>

\* srv.Shutdown returned nil: main returns and the deferred cancel() runs
Cancel ==
    /\ ~ctxDone
    /\ main = "shutdown"
    /\ ctxDone' = TRUE
    /\ main' = "returned"
    /\ UNCHANGED <<queue, pushLog, now, cfg, deliveries, worker, http>>
    /\ UNCHANGED <<store, checks, calls, incidentVars>>

\* main has returned: the process ends, and every goroutine with it
Exit ==
    /\ main = "returned"
    /\ main' = "exited"
    /\ UNCHANGED <<queue, pushLog, now, cfg, deliveries, worker, ctxDone, http>>
    /\ UNCHANGED <<store, checks, calls, incidentVars>>

\* srv.Shutdown failed (its 5 s context ran out): log.Fatalf calls os.Exit(1),
\* no deferred call runs
FatalExit ==
    /\ main = "shutdown"
    /\ main' = "fatal"
    /\ UNCHANGED <<queue, pushLog, now, cfg, deliveries, worker, ctxDone, http>>
    /\ UNCHANGED <<store, checks, calls, incidentVars>>

\* an incident as a dangerous check finds it
SampleIncident == ScanIncident(IncidentRow(1, "zone", "d", 0, 0, 1000, "active", 0, 0))

\* RedisWebhookPublisher.Publish called by a dangerous CheckLocation
Producer(ok) ==
    /\ ProcessAlive
    /\ Len(pushLog) < MaxPush
    /\ LET event == WebhookEvent("u1", 0, 0, TRUE, now, <<SampleIncident>>) IN
       /\ queue' = IF ok
                   THEN LPush(queue, [payload |-> Marshal(event), push |-> Len(pushLog) + 1])
                   ELSE queue
       /\ pushLog' = Append(pushLog, [call |-> 0, event |-> event, ok |-> ok])
    /\ now' = now + 1
    /\ UNCHANGED <<cfg, worker, deliveries, ctxDone>>
    /\ UNCHANGED <<store, checks, calls, incidentVars>>
    /\ UNCHANGED procVars

\* another client of the Redis list pushes bytes that are no WebhookEvent
ForeignPush ==
    /\ Len(pushLog) < MaxPush
    /\ queue' = LPush(queue, [payload |-> Malformed, push |-> Len(pushLog) + 1])
    /\ pushLog' = Append(pushLog, [call |-> 0, event |-> Malformed, ok |-> TRUE])
    /\ UNCHANGED <<now, cfg, worker, deliveries, ctxDone>>
    /\ UNCHANGED <<store, checks, calls, incidentVars>>
    /\ UNCHANGED procVars

\* the JSON of an event with a key WebhookEvent has no field for
PaddedJSON(event) == Marshal(event) @@ [request_id |-> "r1"]

\* another client of the Redis list pushes such an event
ForeignEventPush ==
    /\ Len(pushLog) < MaxPush
    /\ LET event == WebhookEvent("u2", 1, 1, TRUE, now, <<SampleIncident>>) IN
       /\ queue' = LPush(queue, [payload |-> PaddedJSON(event), push |-> Len(pushLog) + 1])
       /\ pushLog' = Append(pushLog, [call |-> 0, event |-> event, ok |-> TRUE])
    /\ UNCHANGED <<now, cfg, worker, deliveries, ctxDone>>
    /\ UNCHANGED <<store, checks, calls, incidentVars>>
    /\ UNCHANGED procVars

\* ------------------------------------------------------------------------
\* incidentService: GetIncident, UpdateIncident, DeactivateIncident,
\* CreateIncident over the incidents table and the Redis cache
\* ------------------------------------------------------------------------
\* json.Marshal(incident) as SetIncidentCache stores it
MarshalIncident(inc) ==
    [kind |-> "entry", id |-> inc.ID, name |-> inc.Name, description |-> inc.Description,
     latitude |-> inc.Latitude, longitude |-> inc.Longitude,
     radius_meters |-> inc.RadiusMeters, status |-> inc.Status,
     created_at |-> inc.CreatedAt, updated_at |-> inc.UpdatedAt]

\* json.Unmarshal(val, incident) in GetIncidentFromCache
UnmarshalIncident(e) ==
    [ID |-> e.id, Name |-> e.name, Description |-> e.description,
     Latitude |-> e.latitude, Longitude |-> e.longitude,
     RadiusMeters |-> e.radius_meters, Status |-> e.status,
     CreatedAt |-> e.created_at, UpdatedAt |-> e.updated_at]

\* the fields a request body carries (UpdateIncidentRequest)
Fields(inc) ==
    [Name |-> inc.Name, Description |-> inc.Description, Latitude |-> inc.Latitude,
     Longitude |-> inc.Longitude, RadiusMeters |-> inc.RadiusMeters, Status |-> inc.Status]

NoFields == [kind |-> "nofields"]
NoIncident == [kind |-> "nil"]

\* validated request bodies
UpdateInputs ==
    {[Name |-> "renamed", Description |-> "d2", Latitude |-> 1, Longitude |-> 0,
      RadiusMeters |-> 2000, Status |-> "active"],
     [Name |-> "zone", Description |-> "d", Latitude |-> 0, Longitude |-> 0,
      RadiusMeters |-> 1000, Status |-> "inactive"]}

\* faulty variant: the UPDATE also resets created_at
UpdateRowResetsCreated(row, inc, at) ==
    [row EXCEPT !.name = inc.Name, !.description = inc.Description,
                !.location = ST_MakePoint(inc.Longitude, inc.Latitude),
                !.radius_meters = inc.RadiusMeters, !.status = inc.Status,
                !.created_at = at, !.updated_at = at]

\* UPDATE incidents SET name, description, location, radius_meters, status,
\* updated_at = NOW() WHERE id = $7, called with ($3, $4) = (lon, lat)
UpdateRow(row, inc, at) ==
    [row EXCEPT !.name = inc.Name, !.description = inc.Description,
                !.location = ST_MakePoint(inc.Longitude, inc.Latitude),
                !.radius_meters = inc.RadiusMeters, !.status = inc.Status,
                !.updated_at = at]

\* faulty variant: the statement flips the status
DeleteRowToggles(row, at) ==
    [row EXCEPT !.status = IF @ = "inactive" THEN "active" ELSE "inactive",
                !.updated_at = at]

\* UPDATE incidents SET status = 'inactive', updated_at = NOW() WHERE id = $1
DeleteRow(row, at) == [row EXCEPT !.status = "inactive", !.updated_at = at]

\* faulty variant: the status that was read before the write is written back
CopyFieldsKeepsStatus(existing, inc) ==
    [existing EXCEPT !.Name = inc.Name, !.Description = inc.Description,
                     !.Latitude = inc.Latitude, !.Longitude = inc.Longitude,
                     !.RadiusMeters = inc.RadiusMeters]

\* the fields UpdateIncident copies from the request onto the fetched record
CopyFields(existing, inc) ==
    [existing EXCEPT !.Name = inc.Name, !.Description = inc.Description,
                     !.Latitude = inc.Latitude, !.Longitude = inc.Longitude,
                     !.RadiusMeters = inc.RadiusMeters, !.Status = inc.Status]

\* requests the service handles at the same time
Slots == {1, 2}

OpIds == Slots

Idle == [op |-> "none", pc |-> "idle"]

\* a request can be taken up: a handler is free and the bound is not reached
CanStart(s) == ops[s].pc \in {"idle", "done"} /\ nops < MaxOps

RetIncident(inc) == [returned |-> TRUE, err |-> FALSE, incident |-> inc]
RetNil == [returned |-> TRUE, err |-> FALSE, incident |-> NoIncident]
RetError == [returned |-> TRUE, err |-> TRUE, incident |-> NoIncident]

NewOp(op, id) ==
    [op |-> op, pc |-> "start", id |-> id, input |-> NoFields, incident |-> NoIncident,
     hit |-> FALSE, cacheErr |-> FALSE, dbRead |-> "none", setErr |-> FALSE,
     dbReads |-> 0, cacheSets |-> 0, invalidations |-> 0,
     invalidated |-> FALSE, wrote |-> 0, wroteFields |-> NoFields,
     floor |-> committed[id], ret |-> NoRet]

\* faulty variant: a cache hit is not returned: the store is read all the same
AfterCacheLookupIgnoresHit(o, cached, cacheErr) ==
    IF cacheErr \/ cached = NoEntry
    THEN [o EXCEPT !.pc = "dbGet", !.cacheErr = cacheErr]
    ELSE [o EXCEPT !.pc = "dbGet", !.hit = TRUE, !.incident = UnmarshalIncident(cached)]

\* faulty variant: an error of the cache lookup fails the call
AfterCacheLookupFailsOnError(o, cached, cacheErr) ==
    IF cacheErr
    THEN [o EXCEPT !.pc = "done", !.cacheErr = TRUE, !.ret = RetError]
    ELSE IF cached = NoEntry
    THEN [o EXCEPT !.pc = "dbGet"]
    ELSE [o EXCEPT !.pc = "done", !.hit = TRUE, !.incident = UnmarshalIncident(cached),
                   !.ret = RetIncident(UnmarshalIncident(cached))]

\* GetIncident after GetIncidentFromCache: an error is logged and handled as
\* a miss, an entry is returned at once
AfterCacheLookup(o, cached, cacheErr) ==
    IF cacheErr \/ cached = NoEntry
    THEN [o EXCEPT !.pc = "dbGet", !.cacheErr = cacheErr]
    ELSE [o EXCEPT !.pc = "done", !.hit = TRUE, !.incident = UnmarshalIncident(cached),
                   !.ret = RetIncident(UnmarshalIncident(cached))]

\* GetIncident is called: the cache lookup
GetStart(s, id, cacheErr) ==
    /\ CanStart(s)
    /\ nops' = nops + 1
    /\ ops' = [ops EXCEPT ![s] = AfterCacheLookup(NewOp("Get", id), cache[id], cacheErr)]
    /\ UNCHANGED <<store, cache, now>>
    /\ UNCHANGED committed
    /\ UNCHANGED <<checks, queue, pushLog, calls, workerVars>>
    /\ UNCHANGED procVars

\* what repo.GetByID answers: a query error, pgx.ErrNoRows, or the row
GetByIDOutcome(row, dbErr) ==
    IF dbErr THEN "failed" ELSE IF row = NoRow THEN "notfound" ELSE "row"

\* faulty variant: the lookup selects active rows only
GetFromDBActiveOnly(o, dbErr) ==
    /\ ops[o].op = "Get"
    /\ ops[o].pc = "dbGet"
    /\ LET row == IF store[ops[o].id] # NoRow /\ store[ops[o].id].status = "active"
                  THEN store[ops[o].id] ELSE NoRow
       IN ops' = [ops EXCEPT ![o] =
            IF GetByIDOutcome(row, dbErr) # "row"
            THEN [@ EXCEPT !.pc = "done", !.dbReads = @ + 1, !.ret = RetError,
                           !.dbRead = GetByIDOutcome(row, dbErr)]
            ELSE [@ EXCEPT !.pc = "cacheSet", !.dbReads = @ + 1, !.dbRead = "row",
                           !.incident = ScanIncident(row)]]
    /\ UNCHANGED <<store, cache, now>>
    /\ UNCHANGED <<nops, committed>>
    /\ UNCHANGED <<checks, queue, pushLog, calls, workerVars>>
    /\ UNCHANGED procVars

\* GetIncident: repo.GetByID; no row or a database error fails the call
GetFromDB(o, dbErr) ==
    /\ ops[o].op = "Get"
    /\ ops[o].pc = "dbGet"
    /\ ops' = [ops EXCEPT ![o] =
            IF GetByIDOutcome(store[ops[o].id], dbErr) # "row"
            THEN [@ EXCEPT !.pc = "done", !.dbReads = @ + 1, !.ret = RetError,
                           !.dbRead = GetByIDOutcome(store[ops[o].id], dbErr)]
            ELSE [@ EXCEPT !.pc = "cacheSet", !.dbReads = @ + 1, !.dbRead = "row",
                           !.incident = ScanIncident(store[ops[o].id])]]
    /\ UNCHANGED <<store, cache, now>>
    /\ UNCHANGED <<nops, committed>>
    /\ UNCHANGED <<checks, queue, pushLog, calls, workerVars>>
    /\ UNCHANGED procVars

\* GetIncident: repo.SetIncidentCache; a failure is logged
GetSetCache(o, ok) ==
    /\ ops[o].op = "Get"
    /\ ops[o].pc = "cacheSet"
    /\ cache' = IF ok THEN [cache EXCEPT ![ops[o].id] = MarshalIncident(ops[o].incident)]
                ELSE cache
    /\ ops' = [ops EXCEPT ![o].pc = "done", ![o].cacheSets = @ + 1,
                          ![o].setErr = ~ok,
                          ![o].ret = RetIncident(ops[o].incident)]
    /\ UNCHANGED <<store, now>>
    /\ UNCHANGED <<nops, committed>>
    /\ UNCHANGED <<checks, queue, pushLog, calls, workerVars>>
    /\ UNCHANGED procVars

\* faulty variant: an id without a row is not reported: the call returns nil
UpdateStartSwallowsNotFound(s, id, input, dbErr) ==
    /\ CanStart(s)
    /\ nops' = nops + 1
    /\ ops' = [ops EXCEPT ![s] =
            IF GetByIDOutcome(store[id], dbErr) = "failed"
            THEN [NewOp("Update", id) EXCEPT !.pc = "done", !.input = input,
                        !.dbReads = 1, !.dbRead = "failed", !.ret = RetError]
            ELSE IF GetByIDOutcome(store[id], dbErr) = "notfound"
            THEN [NewOp("Update", id) EXCEPT !.pc = "done", !.input = input,
                        !.dbReads = 1, !.dbRead = "notfound", !.ret = RetNil]
            ELSE [NewOp("Update", id) EXCEPT !.pc = "write", !.input = input,
                        !.dbReads = 1, !.dbRead = "row",
                        !.incident = CopyFields(ScanIncident(store[id]), input)]]
    /\ UNCHANGED <<store, cache, now>>
    /\ UNCHANGED committed
    /\ UNCHANGED <<checks, queue, pushLog, calls, workerVars>>
    /\ UNCHANGED procVars

\* UpdateIncident is called: repo.GetByID, then the fields are copied
UpdateStart(s, id, input, dbErr) ==
    /\ CanStart(s)
    /\ nops' = nops + 1
    /\ ops' = [ops EXCEPT ![s] =
            IF GetByIDOutcome(store[id], dbErr) # "row"
            THEN [NewOp("Update", id) EXCEPT !.pc = "done", !.input = input,
                        !.dbReads = 1, !.dbRead = GetByIDOutcome(store[id], dbErr),
                        !.ret = RetError]
            ELSE [NewOp("Update", id) EXCEPT !.pc = "write", !.input = input,
                        !.dbReads = 1, !.dbRead = "row",
                        !.incident = CopyFields(ScanIncident(store[id]), input)]]
    /\ UNCHANGED <<store, cache, now>>
    /\ UNCHANGED committed
    /\ UNCHANGED <<checks, queue, pushLog, calls, workerVars>>
    /\ UNCHANGED procVars

\* faulty variant: the cache is invalidated whether or not the write succeeded
UpdateWriteAlwaysInvalidates(o, ok) ==
    /\ ops[o].op = "Update"
    /\ ops[o].pc = "write"
    /\ IF ok /\ store[ops[o].id] # NoRow
       THEN /\ store' = [store EXCEPT ![ops[o].id] = UpdateRow(@, ops[o].incident, now)]
            /\ now' = now + 1
            /\ ops' = [ops EXCEPT ![o].pc = "invalidate", ![o].wrote = now,
                                  ![o].wroteFields = Fields(ops[o].incident)]
       ELSE /\ ops' = [ops EXCEPT ![o].pc = "invalidate"]
            /\ UNCHANGED <<store, now>>
    /\ UNCHANGED cache
    /\ UNCHANGED <<nops, committed>>
    /\ UNCHANGED <<checks, queue, pushLog, calls, workerVars>>
    /\ UNCHANGED procVars

\* UpdateIncident: repo.Update
UpdateWrite(o, ok) ==
    /\ ops[o].op = "Update"
    /\ ops[o].pc = "write"
    /\ IF ok /\ store[ops[o].id] # NoRow
       THEN /\ store' = [store EXCEPT ![ops[o].id] = UpdateRow(@, ops[o].incident, now)]
            /\ now' = now + 1
            /\ ops' = [ops EXCEPT ![o].pc = "invalidate", ![o].wrote = now,
                                  ![o].wroteFields = Fields(ops[o].incident)]
       ELSE /\ ops' = [ops EXCEPT ![o].pc = "done", ![o].ret = RetError]
            /\ UNCHANGED <<store, now>>
    /\ UNCHANGED cache
    /\ UNCHANGED <<nops, committed>>
    /\ UNCHANGED <<checks, queue, pushLog, calls, workerVars>>
    /\ UNCHANGED procVars

\* faulty variant: a failed invalidation fails the call
InvalidateFailureFailsCall(o, ok) ==
    /\ ops[o].pc = "invalidate"
    /\ cache' = IF ok THEN [cache EXCEPT ![ops[o].id] = NoEntry] ELSE cache
    /\ committed' = IF ok /\ ops[o].op \in {"Update", "Deactivate"}
                    THEN [committed EXCEPT ![ops[o].id] =
                            [ver |-> ops[o].wrote, fields |-> ops[o].wroteFields]]
                    ELSE committed
    /\ UNCHANGED nops
    /\ ops' = [ops EXCEPT ![o].pc = "done", ![o].invalidations = @ + 1,
                          ![o].invalidated = ok,
                          ![o].ret = IF ok THEN RetNil ELSE RetError]
    /\ UNCHANGED <<store, now>>
    /\ UNCHANGED <<checks, queue, pushLog, calls, workerVars>>
    /\ UNCHANGED procVars

\* repo.InvalidateIncidentCache after a successful write; a failure is logged
Invalidate(o, ok) ==
    /\ ops[o].pc = "invalidate"
    /\ cache' = IF ok THEN [cache EXCEPT ![ops[o].id] = NoEntry] ELSE cache
    /\ committed' = IF ok /\ ops[o].op \in {"Update", "Deactivate"}
                    THEN [committed EXCEPT ![ops[o].id] =
                            [ver |-> ops[o].wrote, fields |-> ops[o].wroteFields]]
                    ELSE committed
    /\ UNCHANGED nops
    /\ ops' = [ops EXCEPT ![o].pc = "done", ![o].invalidations = @ + 1,
                          ![o].invalidated = ok, ![o].ret = RetNil]
    /\ UNCHANGED <<store, now>>
    /\ UNCHANGED <<checks, queue, pushLog, calls, workerVars>>
    /\ UNCHANGED procVars

\* faulty variant: the update writes its record through to the cache
UpdateInvalidateWritesThrough(o, ok) ==
    /\ ops[o].op = "Update"
    /\ ops[o].pc = "invalidate"
    /\ cache' = IF ok THEN [cache EXCEPT ![ops[o].id] = MarshalIncident(ops[o].incident)]
                ELSE cache
    /\ committed' = IF ok
                    THEN [committed EXCEPT ![ops[o].id] =
                            [ver |-> ops[o].wrote, fields |-> ops[o].wroteFields]]
                    ELSE committed
    /\ UNCHANGED nops
    /\ ops' = [ops EXCEPT ![o].pc = "done", ![o].invalidations = @ + 1,
                          ![o].invalidated = ok, ![o].ret = RetNil]
    /\ UNCHANGED <<store, now>>
    /\ UNCHANGED <<checks, queue, pushLog, calls, workerVars>>
    /\ UNCHANGED procVars

UpdateInvalidate(o, ok) == ops[o].op = "Update" /\ Invalidate(o, ok)

\* DeactivateIncident is called: repo.GetByID
DeactivateStart(s, id, dbErr) ==
    /\ CanStart(s)
    /\ nops' = nops + 1
    /\ ops' = [ops EXCEPT ![s] =
            IF GetByIDOutcome(store[id], dbErr) # "row"
            THEN [NewOp("Deactivate", id) EXCEPT !.pc = "done", !.dbReads = 1,
                        !.dbRead = GetByIDOutcome(store[id], dbErr), !.ret = RetError]
            ELSE [NewOp("Deactivate", id) EXCEPT !.pc = "write", !.dbReads = 1,
                        !.dbRead = "row"]]
    /\ UNCHANGED <<store, cache, now>>
    /\ UNCHANGED committed
    /\ UNCHANGED <<checks, queue, pushLog, calls, workerVars>>
    /\ UNCHANGED procVars

\* faulty variant: the row is deleted (DELETE FROM incidents WHERE id = $1)
DeactivateWriteDeletesRow(o, ok) ==
    /\ ops[o].op = "Deactivate"
    /\ ops[o].pc = "write"
    /\ IF ok /\ store[ops[o].id] # NoRow
       THEN /\ store' = [store EXCEPT ![ops[o].id] = NoRow]
            /\ now' = now + 1
            /\ ops' = [ops EXCEPT ![o].pc = "invalidate", ![o].wrote = now]
       ELSE /\ ops' = [ops EXCEPT ![o].pc = "done", ![o].ret = RetError]
            /\ UNCHANGED <<store, now>>
    /\ UNCHANGED cache
    /\ UNCHANGED <<nops, committed>>
    /\ UNCHANGED <<checks, queue, pushLog, calls, workerVars>>
    /\ UNCHANGED procVars

\* DeactivateIncident: repo.Delete
DeactivateWrite(o, ok) ==
    /\ ops[o].op = "Deactivate"
    /\ ops[o].pc = "write"
    /\ IF ok /\ store[ops[o].id] # NoRow
       THEN /\ store' = [store EXCEPT ![ops[o].id] = DeleteRow(@, now)]
            /\ now' = now + 1
            /\ ops' = [ops EXCEPT ![o].pc = "invalidate", ![o].wrote = now,
                                  ![o].wroteFields =
                                      Fields(ScanIncident(DeleteRow(store[ops[o].id], now)))]
       ELSE /\ ops' = [ops EXCEPT ![o].pc = "done", ![o].ret = RetError]
            /\ UNCHANGED <<store, now>>
    /\ UNCHANGED cache
    /\ UNCHANGED <<nops, committed>>
    /\ UNCHANGED <<checks, queue, pushLog, calls, workerVars>>
    /\ UNCHANGED procVars

DeactivateInvalidate(o, ok) == ops[o].op = "Deactivate" /\ Invalidate(o, ok)

\* the ids the table has no row for
FreeIds == {id \in Ids : store[id] = NoRow}

\* faulty variant: the status of the request is stored as it came
CreateStartKeepsStatus(s, input, ok) ==
    /\ CanStart(s)
    /\ nops' = nops + 1
    /\ FreeIds # {}
    /\ LET id == CHOOSE i \in FreeIds : \A j \in FreeIds : i <= j
           row == IncidentRow(id, input.Name, input.Description, input.Latitude,
                              input.Longitude, input.RadiusMeters, input.Status, now, now)
       IN IF ok
          THEN /\ store' = [store EXCEPT ![id] = row]
               /\ now' = now + 1
               /\ ops' = [ops EXCEPT ![s] = [NewOp("Create", id) EXCEPT
                                        !.pc = "invalidate", !.input = input,
                                        !.incident = ScanIncident(row), !.wrote = now,
                                        !.wroteFields = Fields(ScanIncident(row))]]
          ELSE /\ ops' = [ops EXCEPT ![s] = [NewOp("Create", id) EXCEPT
                                        !.pc = "done", !.input = input, !.ret = RetError]]
               /\ UNCHANGED <<store, now>>
    /\ UNCHANGED cache
    /\ UNCHANGED committed
    /\ UNCHANGED <<checks, queue, pushLog, calls, workerVars>>
    /\ UNCHANGED procVars

\* CreateIncident is called: the status is set to active, then repo.Create
CreateStart(s, input, ok) ==
    /\ CanStart(s)
    /\ nops' = nops + 1
    /\ FreeIds # {}
    /\ LET id == CHOOSE i \in FreeIds : \A j \in FreeIds : i <= j
           row == IncidentRow(id, input.Name, input.Description, input.Latitude,
                              input.Longitude, input.RadiusMeters, "active", now, now)
       IN IF ok
          THEN /\ store' = [store EXCEPT ![id] = row]
               /\ now' = now + 1
               /\ ops' = [ops EXCEPT ![s] = [NewOp("Create", id) EXCEPT
                                        !.pc = "invalidate", !.input = input,
                                        !.incident = ScanIncident(row), !.wrote = now,
                                        !.wroteFields = Fields(ScanIncident(row))]]
          ELSE /\ ops' = [ops EXCEPT ![s] = [NewOp("Create", id) EXCEPT
                                        !.pc = "done", !.input = input, !.ret = RetError]]
               /\ UNCHANGED <<store, now>>
    /\ UNCHANGED cache
    /\ UNCHANGED committed
    /\ UNCHANGED <<checks, queue, pushLog, calls, workerVars>>
    /\ UNCHANGED procVars

CreateInvalidate(o, ok) == ops[o].op = "Create" /\ Invalidate(o, ok)

\* faulty variant: entries are stored without a time to live and stay
CacheExpireKeepsEntry(id) ==
    /\ cache[id] # NoEntry
    /\ cache' = cache
    /\ UNCHANGED <<store, now, ops>>
    /\ UNCHANGED <<nops, committed>>
    /\ UNCHANGED <<checks, queue, pushLog, calls, workerVars>>
    /\ UNCHANGED procVars

\* the 5 minute TTL of a cache entry runs out
CacheExpire(id) ==
    /\ cache[id] # NoEntry
    /\ cache' = [cache EXCEPT ![id] = NoEntry]
    /\ UNCHANGED <<store, now, ops>>
    /\ UNCHANGED <<nops, committed>>
    /\ UNCHANGED <<checks, queue, pushLog, calls, workerVars>>
    /\ UNCHANGED procVars

\* ------------------------------------------------------------------------
\* Initial states and specifications
\* ------------------------------------------------------------------------
\* incidents the table may hold when a check arrives
SeedRows(id) ==
    {NoRow,
     IncidentRow(id, "zone", "d", 0, 0, 1000, "active", 0, 0),
     IncidentRow(id, "zone", "d", 0, 0, 1000, "inactive", 0, 0),
     IncidentRow(id, "zone", "d", 1, 1, 1000, "active", 0, 0)}

SeedStores == {st \in [Ids -> UNION {SeedRows(id) : id \in Ids}] :
                  \A id \in Ids : st[id] \in SeedRows(id)}

\* strings that are cut and compared (header values, API keys) are
\* sequences of tokens; the empty string is the empty sequence
EmptyString == <<>>

\* a configuration with a webhook destination, no signing secret, no API key
DefaultConfig ==
    [WebhookURL |-> "ok", WebhookMaxRetries |-> 1, WebhookBaseDelay |-> 1,
     WebhookSecret |-> "", APIKeys |-> <<>>]

\* the router has handled no request yet
NoRequest == [kind |-> "none"]

WorkerIdle == [pc |-> "select", payload |-> Malformed, push |-> 0, i |-> 0,
               baseDelay |-> 0, popErrors |-> 0, cancelledPops |-> 0]

InitCommon ==
    /\ checks = <<>>
    /\ queue = <<>>
    /\ pushLog = <<>>
    /\ now = 1
    /\ calls = <<>>
    /\ cache = [id \in Ids |-> NoEntry]
    /\ ops = [s \in Slots |-> Idle]
    /\ nops = 0
    /\ committed = [id \in Ids |-> [ver |-> 0, fields |-> NoFields]]
    /\ deliveries = <<>>
    /\ ctxDone = FALSE
    /\ worker = WorkerIdle
    /\ main = "serving"
    /\ http = NoRequest

Init ==
    /\ InitCommon
    /\ store \in SeedStores
    /\ cfg = DefaultConfig

Next ==
    \/ CLStart
    \/ \E c \in 1..Len(calls) : CLFindFail(c)
    \/ \E c \in 1..Len(calls) : CLFind(c)
    \/ \E c \in 1..Len(calls), ok \in BOOLEAN : CLSave(c, ok)
    \/ \E c \in 1..Len(calls), ok \in BOOLEAN : CLPublish(c, ok)

Spec == Init /\ [][Next]_vars

\* incidents of several centres, radii and statuses for the containment query
QuerySeedRows(id) ==
    {NoRow} \cup
    {IncidentRow(id, "zone", "d", c[1], c[2], r, st, 0, 0) :
        c \in {<<0, 0>>, <<1, 0>>}, r \in {1, 1000, 2000}, st \in {"active", "inactive"}}

QueryStores == {st \in [Ids -> UNION {QuerySeedRows(id) : id \in Ids}] :
                   \A id \in Ids : st[id] \in QuerySeedRows(id)}

InitQuery ==
    /\ InitCommon
    /\ store \in QueryStores
    /\ cfg = DefaultConfig

\* CheckLocation up to the answer of repo.FindActiveLocation
NextQuery ==
    \/ CLStart
    \/ \E c \in 1..Len(calls) : CLFindFail(c)
    \/ \E c \in 1..Len(calls) : CLFind(c)

SpecQuery == InitQuery /\ [][NextQuery]_vars

\* the worker's configuration as the environment sets it
Configs ==
    [WebhookURL : {"", "bad", "ok"},
     WebhookMaxRetries : 0..MaxRetriesBound,
     WebhookBaseDelay : {1, 3},
     WebhookSecret : {""},
     APIKeys : {<<>>}]

InitWorker ==
    /\ InitCommon
    /\ store = [id \in Ids |-> NoRow]
    /\ cfg \in Configs

NextWorkerSteps ==
    \/ WSelect
    \/ WPop
    \/ WPopErr
    \/ \E r \in {BuildError, TransportError} \cup Responses : WAttempt(r)
    \/ WSleep

NextProducers ==
    \/ \E ok \in BOOLEAN : Producer(ok)
    \/ ForeignPush

NextWorker ==
    \/ NextWorkerSteps
    \/ NextProducers
    \/ WPopCancelled
    \/ Signal
    \/ Cancel
    \/ Exit
    \/ FatalExit

SpecWorker == InitWorker /\ [][NextWorker]_vars

\* configurations with and without a signing secret
SignedConfigs ==
    [WebhookURL : {"ok"},
     WebhookMaxRetries : {2},
     WebhookBaseDelay : {1},
     WebhookSecret : {"", "k1", "k2"},
     APIKeys : {<<>>}]

InitDelivery ==
    /\ InitCommon
    /\ store = [id \in Ids |-> NoRow]
    /\ cfg \in SignedConfigs

\* the worker with producers of well-formed, padded and malformed payloads
NextDelivery ==
    \/ NextWorkerSteps
    \/ NextProducers
    \/ ForeignEventPush

SpecDelivery == InitDelivery /\ [][NextDelivery]_vars

NextFair ==
    \/ NextWorkerSteps
    \/ NextProducers

\* the worker goroutine is scheduled whenever it can take a step, and the
\* subscriber, the sleep and Redis answer in finite time
FairWorker ==
    /\ InitWorker
    /\ [][NextFair]_vars
    /\ WF_vars(WSelect)
    /\ WF_vars(WPop)
    /\ WF_vars(\E r \in {BuildError, TransportError} \cup Responses : WAttempt(r))
    /\ WF_vars(WSleep)

InitIncident ==
    /\ InitCommon
    /\ store = [id \in Ids |->
                    IF id = 1 THEN IncidentRow(1, "zone", "d", 0, 0, 1000, "active", 0, 0)
                    ELSE NoRow]
    /\ cfg = DefaultConfig

NextIncident ==
    \/ \E s \in Slots, id \in Ids, cacheErr \in BOOLEAN : GetStart(s, id, cacheErr)
    \/ \E o \in OpIds, dbErr \in BOOLEAN : GetFromDB(o, dbErr)
    \/ \E o \in OpIds, ok \in BOOLEAN : GetSetCache(o, ok)
    \/ \E s \in Slots, id \in Ids, input \in UpdateInputs, dbErr \in BOOLEAN :
            UpdateStart(s, id, input, dbErr)
    \/ \E o \in OpIds, ok \in BOOLEAN : UpdateWrite(o, ok)
    \/ \E o \in OpIds, ok \in BOOLEAN : UpdateInvalidate(o, ok)
    \/ \E s \in Slots, id \in Ids, dbErr \in BOOLEAN : DeactivateStart(s, id, dbErr)
    \/ \E o \in OpIds, ok \in BOOLEAN : DeactivateWrite(o, ok)
    \/ \E o \in OpIds, ok \in BOOLEAN : DeactivateInvalidate(o, ok)
    \/ \E s \in Slots, input \in UpdateInputs, ok \in BOOLEAN : CreateStart(s, input, ok)
    \/ \E o \in OpIds, ok \in BOOLEAN : CreateInvalidate(o, ok)
    \/ \E id \in Ids : CacheExpire(id)

SpecIncident == InitIncident /\ [][NextIncident]_vars

\* reads and mutations of the one incident, with invalidations that may fail
NextHeal ==
    \/ \E s \in Slots : GetStart(s, 1, FALSE)
    \/ \E o \in OpIds : GetFromDB(o, FALSE)
    \/ \E o \in OpIds : GetSetCache(o, TRUE)
    \/ \E s \in Slots, input \in UpdateInputs : UpdateStart(s, 1, input, FALSE)
    \/ \E o \in OpIds : UpdateWrite(o, TRUE)
    \/ \E o \in OpIds, ok \in BOOLEAN : UpdateInvalidate(o, ok)
    \/ \E s \in Slots : DeactivateStart(s, 1, FALSE)
    \/ \E o \in OpIds : DeactivateWrite(o, TRUE)
    \/ \E o \in OpIds, ok \in BOOLEAN : DeactivateInvalidate(o, ok)
    \/ CacheExpire(1)

\* Redis removes every entry when its time to live has run out
FairIncident ==
    /\ InitIncident
    /\ [][NextHeal]_vars
    /\ WF_vars(CacheExpire(1))

\* the incidents table of the whole service: one active zone at the origin;
\* its subscriber is down, every request ends in a transport error
SystemStores ==
    {[id \in Ids |-> IF id = 1 THEN IncidentRow(1, "zone", "d", 0, 0, 1000, "active", 0, 0)
                     ELSE NoRow]}

SystemConfigs ==
    [WebhookURL : {"ok"}, WebhookMaxRetries : {1}, WebhookBaseDelay : {1},
     WebhookSecret : {""}, APIKeys : {<<>>}]

InitSystem ==
    /\ InitCommon
    /\ store \in SystemStores
    /\ cfg \in SystemConfigs

\* the service as main wires it: the handlers' CheckLocation calls push, the
\* worker goroutine pops and delivers, main cancels the worker at shutdown
NextSystem ==
    \/ Next
    \/ WSelect
    \/ WPop
    \/ WAttempt(TransportError)
    \/ WSleep
    \/ WPopCancelled
    \/ Signal
    \/ Cancel

SpecSystem == InitSystem /\ [][NextSystem]_vars

\* ------------------------------------------------------------------------
\* incidentService.ListIncidents and GetStats, and the service with all of
\* its operations on one table pair
\* ------------------------------------------------------------------------
\* cfg.StatsTimeWindowMinutes, in ticks of the clock
StatsTimeWindowMinutes == 2

\* the page and page size the service passes on
NormalPage(page) == IF page < 1 THEN 1 ELSE page

NormalPageSize(pageSize) == IF pageSize < 1 \/ pageSize > 100 THEN 20 ELSE pageSize

\* SELECT ... FROM incidents ORDER BY created_at DESC: every order of the
\* rows in which created_at does not increase
OrderedByCreatedDesc(st) ==
    {list \in Orderings({ScanIncident(st[id]) : id \in {i \in Ids : st[i] # NoRow}}) :
        \A i, j \in 1..Len(list) : i < j => list[i].CreatedAt >= list[j].CreatedAt}

\* LIMIT limit OFFSET offset
LimitOffset(list, limit, offset) ==
    SubSeq(list, offset + 1, IF offset + limit < Len(list) THEN offset + limit ELSE Len(list))

\* repo.ListIncidents
ListPages(st, page, pageSize) ==
    {LimitOffset(list, pageSize, (page - 1) * pageSize) : list \in OrderedByCreatedDesc(st)}

\* ListIncidents: one SELECT on incidents
ListIncidents(s, page, pageSize, ok) ==
    /\ CanStart(s)
    /\ nops' = nops + 1
    /\ \E list \in ListPages(store, NormalPage(page), NormalPageSize(pageSize)) :
          ops' = [ops EXCEPT ![s] =
                    [op |-> "List", pc |-> "done", page |-> page, pageSize |-> pageSize,
                     ret |-> IF ok
                             THEN [returned |-> TRUE, err |-> FALSE, incidents |-> list]
                             ELSE [returned |-> TRUE, err |-> TRUE, incidents |-> <<>>]]]
    /\ UNCHANGED <<store, cache, now>>
    /\ UNCHANGED committed
    /\ UNCHANGED <<checks, queue, pushLog, calls, workerVars>>
    /\ UNCHANGED procVars

\* SELECT COUNT(DISTINCT user_id) FROM location_checks WHERE checked_at >=
\* NOW() - minutes
GetLocationCheckStats(rows, at, minutes) ==
    Cardinality({rows[i].user_id : i \in {k \in 1..Len(rows) :
                                            rows[k].checked_at >= at - minutes}})

\* GetStats: one SELECT on location_checks
GetStats(s, ok) ==
    /\ CanStart(s)
    /\ nops' = nops + 1
    /\ ops' = [ops EXCEPT ![s] =
            [op |-> "Stats", pc |-> "done",
             ret |-> IF ok
                     THEN [returned |-> TRUE, err |-> FALSE,
                           count |-> GetLocationCheckStats(checks, now, StatsTimeWindowMinutes)]
                     ELSE [returned |-> TRUE, err |-> TRUE, count |-> 0]]]
    /\ UNCHANGED <<store, cache, now>>
    /\ UNCHANGED committed
    /\ UNCHANGED <<checks, queue, pushLog, calls, workerVars>>
    /\ UNCHANGED procVars

InitRecords ==
    /\ InitCommon
    /\ store = [id \in Ids |->
                    IF id = 1 THEN IncidentRow(1, "zone", "d", 0, 0, 1000, "active", 0, 0)
                    ELSE NoRow]
    /\ cfg = DefaultConfig

\* no call of the client is under way
RecordsIdle ==
    /\ \A s \in Slots : ops[s].pc \in {"idle", "done"}
    /\ \A c \in 1..Len(calls) : calls[c].pc = "done"

\* the records of the client's calls are kept in the slots in turn, so that
\* the last two are at hand
RecordSlot == (nops % 2) + 1

\* every operation of the service, called by one client that awaits each
\* answer before its next request
NextRecords ==
    \/ RecordsIdle /\ CLStart
    \/ \E c \in 1..Len(calls) : CLFind(c)
    \/ \E c \in 1..Len(calls) : CLSave(c, TRUE)
    \/ \E c \in 1..Len(calls) : CLPublish(c, TRUE)
    \/ RecordsIdle /\ nops < MaxRecordOps /\ GetStart(RecordSlot, 1, FALSE)
    \/ \E o \in OpIds : GetFromDB(o, FALSE)
    \/ \E o \in OpIds : GetSetCache(o, TRUE)
    \/ RecordsIdle /\ nops < MaxRecordOps
          /\ \E input \in UpdateInputs : UpdateStart(RecordSlot, 1, input, FALSE)
    \/ \E o \in OpIds : UpdateWrite(o, TRUE)
    \/ \E o \in OpIds : UpdateInvalidate(o, TRUE)
    \/ RecordsIdle /\ nops < MaxRecordOps /\ DeactivateStart(RecordSlot, 1, FALSE)
    \/ \E o \in OpIds : DeactivateWrite(o, TRUE)
    \/ \E o \in OpIds : DeactivateInvalidate(o, TRUE)
    \/ RecordsIdle /\ nops < MaxRecordOps
          /\ \E input \in UpdateInputs : CreateStart(RecordSlot, input, TRUE)
    \/ \E o \in OpIds : CreateInvalidate(o, TRUE)
    \/ RecordsIdle /\ nops < MaxRecordOps /\ ListIncidents(RecordSlot, 0, 1, TRUE)
    \/ RecordsIdle /\ nops < MaxRecordOps /\ GetStats(RecordSlot, TRUE)

SpecRecords == InitRecords /\ [][NextRecords]_vars

\* ------------------------------------------------------------------------
\* HTTP API v1: config.LoadConfig's API keys, RegisterRoutes and
\* APIKeyAuthMiddleware.  A string is the sequence of its tokens.
\* ------------------------------------------------------------------------
\* strings.HasPrefix and strings.TrimPrefix
HasPrefix(str, prefix) == Len(str) >= 1 /\ str[1] = prefix

TrimPrefix(str, prefix) == IF HasPrefix(str, prefix) THEN Tail(str) ELSE str

\* strings.TrimSpace
RECURSIVE TrimLeft(_)
TrimLeft(str) ==
    IF str # <<>> /\ Head(str) = " " THEN TrimLeft(Tail(str)) ELSE str

RECURSIVE TrimRight(_)
TrimRight(str) ==
    IF str # <<>> /\ str[Len(str)] = " "
    THEN TrimRight(SubSeq(str, 1, Len(str) - 1))
    ELSE str

TrimSpace(str) == TrimRight(TrimLeft(str))

\* strings.Split(str, ","): one more part than there are separators
RECURSIVE SplitFrom(_, _)
SplitFrom(str, part) ==
    IF str = <<>> THEN <<part>>
    ELSE IF Head(str) = "," THEN <<part>> \o SplitFrom(Tail(str), <<>>)
    ELSE SplitFrom(Tail(str), Append(part, Head(str)))

Split(str) == SplitFrom(str, <<>>)

\* LoadConfig: API_KEYS is split at the commas and each part trimmed; an
\* unset or empty variable leaves the list nil
LoadAPIKeys(apiKeysStr) ==
    IF apiKeysStr # EmptyString
    THEN LET parts == Split(apiKeysStr) IN
         [i \in 1..Len(parts) |-> TrimSpace(parts[i])]
    ELSE <<>>

\* values of API_KEYS
APIKeysEnv ==
    {EmptyString, <<"k1">>, <<"k1", ",", "k2">>, <<"k1", ",", " ", "k2", " ">>,
     <<"k1", ",">>}

AuthConfigs == {[DefaultConfig EXCEPT !.APIKeys = LoadAPIKeys(env)] : env \in APIKeysEnv}

\* header values a client may send; the empty string is also what
\* c.GetHeader returns for a header that is absent
XAPIKeyValues == {EmptyString, <<"k1">>, <<"k2">>, <<"k3">>}

AuthorizationValues ==
    {EmptyString, <<"Bearer ", "k1">>, <<"Bearer ", "k3">>, <<"Bearer ">>, <<"k1">>}

Methods == {"GET", "POST", "PUT", "DELETE"}

\* request paths below /api/v1
Paths ==
    {<<"incidents">>, <<"incidents", "stats">>, <<"incidents", "id1">>,
     <<"location", "check">>, <<"system", "health">>}

NoRoute == [handler |-> "none", middleware |-> FALSE]

\* RegisterRoutes: the incidents group uses the middleware, the
\* location-check and health routes are registered on the bare group
RouteOf(method, path) ==
    IF path = <<"incidents">> /\ method = "POST"
        THEN [handler |-> "createIncident", middleware |-> TRUE]
    ELSE IF path = <<"incidents">> /\ method = "GET"
        THEN [handler |-> "listIncidents", middleware |-> TRUE]
    ELSE IF path = <<"incidents", "stats">> /\ method = "GET"
        THEN [handler |-> "getStats", middleware |-> TRUE]
    ELSE IF Len(path) = 2 /\ path[1] = "incidents" /\ method = "GET"
        THEN [handler |-> "getIncident", middleware |-> TRUE]
    ELSE IF Len(path) = 2 /\ path[1] = "incidents" /\ method = "PUT"
        THEN [handler |-> "updateIncident", middleware |-> TRUE]
    ELSE IF Len(path) = 2 /\ path[1] = "incidents" /\ method = "DELETE"
        THEN [handler |-> "deleteIncident", middleware |-> TRUE]
    ELSE IF path = <<"location", "check">> /\ method = "POST"
        THEN [handler |-> "checkLocation", middleware |-> FALSE]
    ELSE IF path = <<"system", "health">> /\ method = "GET"
        THEN [handler |-> "healthCheck", middleware |-> FALSE]
    ELSE NoRoute

\* the handler calls its service method once the request is bound and
\* validated; the list and stats handlers always do, healthCheck never does
HandlerCallsService(handler, valid) ==
    IF handler = "healthCheck" THEN FALSE
    ELSE IF handler \in {"listIncidents", "getStats"} THEN TRUE
    ELSE valid

\* faulty variant: any key that is present is let through
APIKeyAuthMiddlewareAnyKey(keys, xAPIKey, authorization) ==
    LET apiKey == IF xAPIKey = EmptyString
                     /\ authorization # EmptyString /\ HasPrefix(authorization, "Bearer ")
                  THEN TrimPrefix(authorization, "Bearer ")
                  ELSE xAPIKey
    IN IF apiKey = EmptyString
       THEN [apiKey |-> apiKey, next |-> FALSE, status |-> 401, error |-> "API key required"]
       ELSE [apiKey |-> apiKey, next |-> TRUE, status |-> 0, error |-> ""]

\* APIKeyAuthMiddleware: the key is X-API-Key, or the rest of a Bearer
\* Authorization header when X-API-Key is empty; an empty key and a key
\* that is not in cfg.APIKeys abort the chain with 401
APIKeyAuthMiddleware(keys, xAPIKey, authorization) ==
    LET apiKey == IF xAPIKey = EmptyString
                     /\ authorization # EmptyString /\ HasPrefix(authorization, "Bearer ")
                  THEN TrimPrefix(authorization, "Bearer ")
                  ELSE xAPIKey
        isValid == \E i \in 1..Len(keys) : keys[i] = apiKey
    IN IF apiKey = EmptyString
       THEN [apiKey |-> apiKey, next |-> FALSE, status |-> 401, error |-> "API key required"]
       ELSE IF ~isValid
       THEN [apiKey |-> apiKey, next |-> FALSE, status |-> 401, error |-> "Invalid API key"]
       ELSE [apiKey |-> apiKey, next |-> TRUE, status |-> 0, error |-> ""]

\* the router serves one request: the route is looked up, the group's
\* middleware runs, and the handler runs unless the chain was aborted
ServeHTTP(method, path, xAPIKey, authorization, valid) ==
    /\ ProcessAlive
    /\ LET route == RouteOf(method, path)
           auth == APIKeyAuthMiddleware(cfg.APIKeys, xAPIKey, authorization)
           reached == route # NoRoute /\ (route.middleware => auth.next)
       IN http' = [kind |-> "response", method |-> method, path |-> path,
                   xAPIKey |-> xAPIKey, authorization |-> authorization,
                   route |-> route,
                   middlewareRan |-> route.middleware,
                   handlerRan |-> reached,
                   serviceCalled |-> reached /\ HandlerCallsService(route.handler, valid),
                   abortStatus |-> IF route = NoRoute THEN 404
                                   ELSE IF route.middleware /\ ~auth.next THEN auth.status
                                   ELSE 0,
                   error |-> IF route # NoRoute /\ route.middleware THEN auth.error ELSE ""]
    /\ UNCHANGED main
    /\ UNCHANGED <<store, checks, queue, pushLog, now, calls, workerVars, incidentVars>>

InitAuth ==
    /\ InitCommon
    /\ store = [id \in Ids |-> NoRow]
    /\ cfg \in AuthConfigs

\* the API serving requests with any headers on any route
NextAuth ==
    \E method \in Methods, path \in Paths, xAPIKey \in XAPIKeyValues,
       authorization \in AuthorizationValues, valid \in BOOLEAN :
        ServeHTTP(method, path, xAPIKey, authorization, valid)

SpecAuth == InitAuth /\ [][NextAuth]_vars

\* ------------------------------------------------------------------------
\* Properties of the geofence check pipeline (Spec)
\* ------------------------------------------------------------------------
CallIds == 1..Len(calls)

\* the Publish invocations a call made
PushesOf(c) == {k \in 1..Len(pushLog) : pushLog[k].call = c}

\* the audit rows a call saved
RowsOf(c) == {k \in 1..Len(checks) : checks[k].call = c}

\* the queue elements a Publish invocation added
QueuedOf(k) == {n \in 1..Len(queue) : queue[n].push = k}

\* C1: a CheckLocation call whose containment query returned a non-empty
\* list invokes the push exactly once, with an event that carries the call's
\* user id and coordinates, is_dangerous = true and the list the call
\* returns (and a successful push leaves exactly that event on the queue);
\* a call whose query returned an empty list pushes nothing.
C1_OnePushPerDangerousCheck ==
    \A c \in CallIds :
        LET call == calls[c] IN
        /\ Cardinality(PushesOf(c)) <= 1
        /\ (call.queried /\ call.activeIncident = <<>>) => PushesOf(c) = {}
        /\ (call.pc = "done" /\ call.queried /\ call.activeIncident # <<>>) =>
              /\ Cardinality(PushesOf(c)) = 1
              /\ \A k \in PushesOf(c) :
                    /\ pushLog[k].event.UserID = call.userID
                    /\ pushLog[k].event.Latitude = call.lat
                    /\ pushLog[k].event.Longitude = call.lon
                    /\ pushLog[k].event.IsDangerous = TRUE
                    /\ pushLog[k].event.Incidents = call.ret.incidents
                    /\ Cardinality(QueuedOf(k)) = (IF pushLog[k].ok THEN 1 ELSE 0)
                    /\ \A n \in QueuedOf(k) :
                          /\ CanUnmarshal(queue[n].payload)
                          /\ Unmarshal(queue[n].payload) = pushLog[k].event

C1_Witness ==
    /\ \E c \in CallIds :
          /\ calls[c].pc = "done" /\ calls[c].queried
          /\ Len(calls[c].activeIncident) = 2 /\ calls[c].published
    /\ \E c \in CallIds :
          /\ calls[c].pc = "done" /\ calls[c].queried
          /\ calls[c].activeIncident = <<>>

\* C2: every LocationCheck row CheckLocation saves carries the call's user
\* id and coordinates, and is_dangerous is true exactly when the containment
\* query of that call returned at least one incident.
C2_AuditRecordMatchesCall ==
    \A k \in 1..Len(checks) :
        LET row == checks[k]
            call == calls[row.call]
        IN /\ call.queried
           /\ row.user_id = call.userID
           /\ ST_Y(row.location) = call.lat
           /\ ST_X(row.location) = call.lon
           /\ row.is_dangerous = (call.activeIncident # <<>>)

C2_Witness ==
    /\ \E k \in 1..Len(checks) :
          checks[k].is_dangerous /\ Len(calls[checks[k].call].activeIncident) = 1
    /\ \E k \in 1..Len(checks) :
          ~checks[k].is_dangerous /\ calls[checks[k].call].activeIncident = <<>>

\* C3: whenever the containment query of a call succeeded, the call returns
\* that query's list and no error, whatever the outcomes of the audit save
\* and of the queue push.
C3_ReturnsQueryResult ==
    \A c \in CallIds :
        LET call == calls[c] IN
        /\ (call.queried /\ call.pc = "done") =>
              /\ call.ret.returned
              /\ ~call.ret.err
              /\ ~call.ret.isNil
              /\ call.ret.incidents = call.activeIncident
        /\ (call.queried /\ call.pc # "done") => ~call.ret.returned

\* a dangerous check returned although both the save and the push failed
C3_Witness ==
    \E c \in CallIds :
        /\ calls[c].pc = "done" /\ calls[c].queried
        /\ calls[c].activeIncident # <<>>
        /\ calls[c].saves = 1 /\ ~calls[c].saved
        /\ PushesOf(c) # {} /\ ~calls[c].published

\* C4: when the containment query of a call fails, the call returns an
\* error and no list, and it saves no LocationCheck row and pushes no event.
C4_QueryFailureIsFatal ==
    \A c \in CallIds :
        LET call == calls[c] IN
        (call.pc = "done" /\ ~call.queried) =>
            /\ call.ret.returned
            /\ call.ret.err
            /\ call.ret.isNil
            /\ call.ret.incidents = <<>>
            /\ call.saves = 0
            /\ RowsOf(c) = {}
            /\ PushesOf(c) = {}

\* one call failed in the query while another saved a row and pushed
C4_Witness ==
    /\ \E c \in CallIds : calls[c].pc = "done" /\ ~calls[c].queried
    /\ checks # <<>>
    /\ queue # <<>>

\* C24 as stated: every CheckLocation call issues exactly one audit save.
C24_OneAuditSavePerCall ==
    \A c \in CallIds : calls[c].pc = "done" => calls[c].saves = 1

\* C24, amended: a CheckLocation call whose containment query succeeded
\* issues exactly one audit save, which writes one LocationCheck row when it
\* succeeds and none when it fails; a call whose query failed issues none.
C24_OneAuditSavePerQueriedCall ==
    \A c \in CallIds :
        LET call == calls[c] IN
        /\ call.saves <= 1
        /\ Cardinality(RowsOf(c)) = (IF call.saved THEN 1 ELSE 0)
        /\ call.saved => call.saves = 1
        /\ (call.queried /\ call.pc \in {"publish", "done"}) => call.saves = 1
        /\ (call.pc \in {"find", "save"} \/ ~call.queried) => call.saves = 0

\* two calls returned after their one save, which failed for one of them
C24_Witness ==
    \E c1, c2 \in CallIds :
        /\ calls[c1].pc = "done" /\ calls[c1].queried
        /\ calls[c1].saves = 1 /\ calls[c1].saved /\ Cardinality(RowsOf(c1)) = 1
        /\ calls[c2].pc = "done" /\ calls[c2].queried
        /\ calls[c2].saves = 1 /\ ~calls[c2].saved /\ RowsOf(c2) = {}

\* ------------------------------------------------------------------------
\* Properties of the event queue and the delivery worker
\* ------------------------------------------------------------------------
Delivs == 1..Len(deliveries)

\* the subscriber answered 2xx
Is2xx(r) == r.kind = "status" /\ r.status \in 200..299

\* the worker has left processWebhookEvent for delivery d
Left(d) == d < Cur \/ worker.pc \in {"select", "brpop", "stopped"}

Queued(n) == \E k \in 1..Len(queue) : queue[k].push = n
Popped(n) == \E d \in Delivs : deliveries[d].push = n

\* C5: if the first k attempts for an event fail and attempt k+1 is answered
\* 2xx, the worker makes exactly k+1 attempts, the event is Delivered, and no
\* attempt for it is made afterwards.
C5_DeliveredAtFirst2xx ==
    /\ [](\A d \in Delivs :
            LET e == deliveries[d] IN
            \A j \in 1..Len(e.outcomes) :
                Is2xx(e.outcomes[j]) =>
                    /\ Len(e.outcomes) = j
                    /\ j <= cfg.WebhookMaxRetries
                    /\ e.state = "Delivered"
                    /\ Left(d))
    /\ [][\A d \in Delivs :
            deliveries[d].state = "Delivered" => deliveries'[d] = deliveries[d]]_vars

\* an event was delivered at its second attempt and the worker went on
C5_Witness ==
    \E d \in Delivs :
        /\ deliveries[d].state = "Delivered"
        /\ Len(deliveries[d].outcomes) = 2
        /\ ~Is2xx(deliveries[d].outcomes[1])
        /\ d < Cur

\* C6: an event whose every attempt fails gets exactly WebhookMaxRetries
\* attempts and is then Exhausted and dropped: it is not pushed back, every
\* pushed element is popped at most once, and no attempt follows.
C6_ExhaustedAfterMaxAttempts ==
    /\ [](\A d \in Delivs :
            LET e == deliveries[d] IN
            /\ e.state = "Exhausted" =>
                  /\ Len(e.outcomes) = cfg.WebhookMaxRetries
                  /\ \A j \in 1..Len(e.outcomes) : ~Is2xx(e.outcomes[j])
                  /\ Left(d)
            /\ (e.state \in {"Attempting", "Exhausted"} /\ Left(d)
                  /\ \A j \in 1..Len(e.outcomes) : ~Is2xx(e.outcomes[j])) =>
                  /\ e.state = "Exhausted"
                  /\ Len(e.outcomes) = cfg.WebhookMaxRetries
            /\ ~Queued(e.push)
            /\ \A d2 \in Delivs : d2 # d => deliveries[d2].push # e.push)
    /\ [](Len(queue) + Len(deliveries) = Cardinality({k \in 1..Len(pushLog) : pushLog[k].ok}))
    /\ [][\A d \in Delivs :
            deliveries[d].state = "Exhausted" => deliveries'[d] = deliveries[d]]_vars

\* an event used up two attempts and the worker popped the next one
C6_Witness ==
    \E d \in Delivs :
        /\ deliveries[d].state = "Exhausted"
        /\ Len(deliveries[d].outcomes) = 2
        /\ d < Cur

\* C7: the queue is FIFO: when an element is popped, every element whose
\* push completed before its own push has been popped before it.
C7_QueueIsFifo ==
    \A d \in Delivs :
        \A k \in 1..Len(pushLog) :
            (pushLog[k].ok /\ k < deliveries[d].push) =>
                \E d2 \in 1..(d - 1) : deliveries[d2].push = k

\* two elements were popped, the later pushed one last
C7_Witness ==
    /\ Len(deliveries) = 2
    /\ deliveries[1].push < deliveries[2].push

\* C8: with fair scheduling and no cancellation, every element that a
\* successful push put on the queue is eventually popped by the worker.
C8_PushedIsEventuallyPopped ==
    \A n \in 1..MaxPush : Queued(n) ~> Popped(n)

\* an element was popped after the one before it exhausted its retries
C8_Witness ==
    /\ Len(deliveries) = 2
    /\ deliveries[1].state = "Exhausted"
    /\ Len(deliveries[1].outcomes) > 0

\* C19: the consumer loop ends only on a cancelled context: a payload that
\* does not deserialize is dropped without a delivery attempt or a sleep and
\* the worker returns to the head of the loop, as it does after a Redis
\* error of the pop and after an event exhausted its retries; the worker
\* stops only from the head of the loop, with the context cancelled.
C19_LoopStopsOnlyOnCancel ==
    /\ [](worker.pc = "stopped" => ctxDone)
    /\ [](\A d \in Delivs :
            deliveries[d].state = "Malformed" =>
                /\ ~CanUnmarshal(deliveries[d].payload)
                /\ deliveries[d].outcomes = <<>>
                /\ deliveries[d].sleeps = <<>>
                /\ Left(d))
    /\ [][/\ (worker.pc # "stopped" /\ worker'.pc = "stopped") =>
                (worker.pc = "select" /\ ctxDone)
          /\ (Len(deliveries') > Len(deliveries)
                /\ deliveries'[Len(deliveries')].state = "Malformed") =>
                worker'.pc = "select"
          /\ worker'.popErrors > worker.popErrors => worker'.pc = "select"
          /\ (worker.pc \in {"attempt", "sleep"}
                /\ deliveries'[Cur].state = "Exhausted") =>
                worker'.pc = "select"]_vars

\* after a Redis error the worker popped a malformed payload, skipped it,
\* popped the next event and exhausted its retries, and is in the loop still
C19_Witness ==
    /\ worker.popErrors = 1
    /\ Len(deliveries) = 2
    /\ deliveries[1].state = "Malformed"
    /\ deliveries[2].state = "Exhausted"
    /\ Len(deliveries[2].outcomes) > 0
    /\ worker.pc = "brpop"

\* C20: a pop that ends with context.Canceled is not handled as a failure:
\* the error path (log, sleep) is not taken and nothing is popped or
\* delivered; the worker goes back to the head of the loop and from there
\* only stops; once the context is cancelled the worker enters no pop.
C20_CancelledPopStopsWorker ==
    /\ [][worker'.cancelledPops > worker.cancelledPops =>
                /\ worker.pc = "brpop"
                /\ ctxDone
                /\ worker'.pc = "select"
                /\ worker'.popErrors = worker.popErrors
                /\ deliveries' = deliveries
                /\ queue' = queue]_vars
    /\ [](worker.cancelledPops > 0 =>
                /\ ctxDone
                /\ worker.cancelledPops = 1
                /\ worker.pc \in {"select", "stopped"})
    /\ [][(ctxDone /\ worker.pc = "select" /\ worker' # worker) =>
                worker'.pc = "stopped"]_vars
    /\ [][(ctxDone /\ worker.pc # "brpop") => worker'.pc # "brpop"]_vars

\* the context was cancelled during a pop; the worker stopped and left an
\* event on the queue
C20_Witness ==
    /\ worker.cancelledPops = 1
    /\ worker.pc = "stopped"
    /\ worker.popErrors = 0
    /\ queue # <<>>

\* C23: every request of a delivery carries as its body the payload exactly
\* as it was popped, the same in every attempt of the event; it has the
\* X-Webhook-Signature header exactly when WebhookSecret is set, and the
\* header is then the HMAC-SHA256 of that payload under that secret, so
\* requests with different payloads carry different signatures.
C23_BodyIsPoppedPayloadSigned ==
    /\ \A d \in Delivs :
          LET e == deliveries[d] IN
          /\ Len(e.requests) <= Len(e.outcomes)
          /\ \A j \in 1..Len(e.requests) :
                LET req == e.requests[j] IN
                /\ req.body = e.payload
                /\ \E n \in 1..Len(pushLog) : n = e.push
                /\ req.headers["Content-Type"] = "application/json"
                /\ ("X-Webhook-Signature" \in DOMAIN req.headers) <=> (cfg.WebhookSecret # "")
                /\ cfg.WebhookSecret # "" =>
                      req.headers["X-Webhook-Signature"] =
                          [hmac |-> "sha256", key |-> cfg.WebhookSecret,
                           data |-> e.payload, encoding |-> "hex"]
    /\ \A d1, d2 \in Delivs :
          \A j1 \in 1..Len(deliveries[d1].requests), j2 \in 1..Len(deliveries[d2].requests) :
              (cfg.WebhookSecret # "" /\ deliveries[d1].payload # deliveries[d2].payload) =>
                  deliveries[d1].requests[j1].headers["X-Webhook-Signature"]
                      # deliveries[d2].requests[j2].headers["X-Webhook-Signature"]

\* with a secret set, two attempts were made for a payload that its own
\* re-serialization differs from, and one for another payload
C23_Witness ==
    /\ cfg.WebhookSecret = "k1"
    /\ \E d1, d2 \in Delivs :
          /\ Len(deliveries[d1].requests) = 2
          /\ deliveries[d1].payload # Marshal(Unmarshal(deliveries[d1].payload))
          /\ Len(deliveries[d2].requests) >= 1
          /\ deliveries[d2].payload # deliveries[d1].payload

\* C21: once main has received the shutdown signal, the worker starts no
\* new pop from the queue.
C21_NoPopAfterShutdownSignal ==
    [][(main # "serving" /\ worker.pc # "brpop") => worker'.pc # "brpop"]_vars

\* C22: the process does not end by main returning while a delivery attempt
\* of the worker is in flight: the shutdown path joins the worker first.
\* (An exit through log.Fatalf, after the 5 s of srv.Shutdown ran out, is
\* taken as the elapsed grace period and is not held against the claim.)
C22_ExitWaitsForInFlightAttempt ==
    main = "exited" => worker.pc # "attempt"

\* 2^n
RECURSIVE Pow2(_)
Pow2(n) == IF n = 0 THEN 1 ELSE 2 * Pow2(n - 1)

\* the attempt was sent and was not answered 2xx
SentAndFailed(r) == r.kind \in {"transport", "status"} /\ ~Is2xx(r)

\* C27: the j-th backoff sleep of an event follows its j-th failed attempt
\* and lasts WebhookBaseDelay * 2^(j-1); the delay of every newly popped
\* event starts again at WebhookBaseDelay.
C27_DelayDoublesFromBase ==
    /\ [](\A d \in Delivs :
            LET e == deliveries[d] IN
            /\ Len(e.sleeps) <= Len(e.outcomes)
            /\ \A j \in 1..Len(e.sleeps) :
                  /\ e.sleeps[j] = cfg.WebhookBaseDelay * Pow2(j - 1)
                  /\ \A k \in 1..j : SentAndFailed(e.outcomes[k])
            /\ (d = Cur /\ worker.pc = "sleep") =>
                  /\ Len(e.sleeps) = Len(e.outcomes) - 1
                  /\ worker.baseDelay = cfg.WebhookBaseDelay * Pow2(Len(e.outcomes) - 1))
    /\ [][Len(deliveries') > Len(deliveries) /\ worker'.pc = "attempt" =>
            worker'.baseDelay = cfg.WebhookBaseDelay]_vars

\* two events in a row slept the base delay and then twice the base delay
C27_Witness ==
    /\ Len(deliveries) = 2
    /\ cfg.WebhookBaseDelay = 3
    /\ deliveries[1].sleeps = <<3, 6>>
    /\ deliveries[2].sleeps = <<3, 6>>

\* C28: backoff sleeps occur only between consecutive attempts: an event
\* whose every attempt is sent and fails is slept for exactly
\* WebhookMaxRetries - 1 times and is Exhausted as soon as its last attempt
\* has failed, without a further sleep.
C28_SleepsOnlyBetweenAttempts ==
    (cfg.WebhookURL = "ok" /\ cfg.WebhookMaxRetries >= 1) =>
        \A d \in Delivs :
            LET e == deliveries[d] IN
            /\ Len(e.sleeps) <= cfg.WebhookMaxRetries - 1
            /\ e.state = "Exhausted" => Len(e.sleeps) = cfg.WebhookMaxRetries - 1
            /\ (/\ Len(e.outcomes) = cfg.WebhookMaxRetries
                /\ \A j \in 1..Len(e.outcomes) : SentAndFailed(e.outcomes[j])) =>
                  e.state = "Exhausted"

Terminal == {"Delivered", "Exhausted", "Malformed", "Skipped"}

\* C29: at most one attempt is in flight: only the newest delivery can be
\* Attempting and it is the one the worker is in, its attempts and sleeps
\* are taken one at a time, and the worker pops only from its loop, after
\* the event before has been Delivered, Exhausted or dropped.
C29_OneAttemptInFlight ==
    /\ [](\A d \in Delivs :
            /\ d < Cur => deliveries[d].state \in Terminal
            /\ deliveries[d].state = "Attempting" <=>
                  (d = Cur /\ worker.pc \in {"attempt", "sleep"}))
    /\ [][/\ Len(deliveries') > Len(deliveries) =>
               /\ worker.pc = "brpop"
               /\ Len(deliveries') = Len(deliveries) + 1
               /\ \A d \in Delivs :
                     deliveries[d].state \in Terminal /\ deliveries'[d] = deliveries[d]
          /\ \A d \in Delivs :
               deliveries'[d] # deliveries[d] =>
                  /\ d = Cur /\ deliveries[d].state = "Attempting"
                  /\ Len(deliveries'[d].outcomes) + Len(deliveries'[d].sleeps)
                        = Len(deliveries[d].outcomes) + Len(deliveries[d].sleeps) + 1
                  /\ Len(deliveries'[d].outcomes) > Len(deliveries[d].outcomes) =>
                        worker.pc = "attempt"]_vars

\* the second event is being attempted after the first used up its retries
C29_Witness ==
    /\ Len(deliveries) = 2
    /\ deliveries[1].state = "Exhausted" /\ Len(deliveries[1].outcomes) = 2
    /\ deliveries[2].state = "Attempting" /\ Len(deliveries[2].outcomes) = 1
    /\ worker.pc = "attempt"

\* C30: with no WebhookURL configured no request is ever made: every popped
\* event has left the queue and was dropped without being Attempting, and
\* the worker is back in its loop.
C30_NoURLNoAttempt ==
    cfg.WebhookURL = "" =>
        /\ worker.pc \in {"select", "brpop", "stopped"}
        /\ \A d \in Delivs :
              LET e == deliveries[d] IN
              /\ e.state \in {"Skipped", "Malformed"}
              /\ e.outcomes = <<>> /\ e.requests = <<>> /\ e.sleeps = <<>>
              /\ ~Queued(e.push)

\* without a URL two well-formed events were popped and dropped in turn
C30_Witness ==
    /\ cfg.WebhookURL = ""
    /\ Len(deliveries) = 2
    /\ deliveries[1].state = "Skipped" /\ deliveries[2].state = "Skipped"
    /\ deliveries[1].push # deliveries[2].push
    /\ queue = <<>>

\* C31: an attempt succeeds iff it is answered with a status in 200..299:
\* an event is Delivered exactly when its last attempt was and no earlier one
\* was; any other outcome with fewer than WebhookMaxRetries attempts made
\* leaves the event Attempting, and the worker's next step on it is its
\* backoff sleep or its next attempt.
C31_SuccessIff2xxElseRetry ==
    /\ [](\A d \in Delivs :
            LET e == deliveries[d]
                n == Len(e.outcomes)
            IN /\ e.state = "Delivered" <=> (n > 0 /\ Is2xx(e.outcomes[n]))
               /\ \A j \in 1..(n - 1) : ~Is2xx(e.outcomes[j])
               /\ (/\ n > 0 /\ ~Is2xx(e.outcomes[n])
                   /\ n < cfg.WebhookMaxRetries) =>
                     /\ e.state = "Attempting"
                     /\ d = Cur
                     /\ worker.pc \in {"sleep", "attempt"})
    /\ [][(/\ worker.pc = "sleep"
           /\ Len(deliveries[Cur].outcomes) < cfg.WebhookMaxRetries
           /\ worker' # worker) =>
              /\ worker'.pc = "attempt"
              /\ Len(deliveries') = Len(deliveries)
              /\ deliveries'[Cur].outcomes = deliveries[Cur].outcomes]_vars
    /\ [][(worker.pc = "attempt" /\ worker' # worker) =>
              /\ Len(deliveries') = Len(deliveries)
              /\ Len(deliveries'[Cur].outcomes) = Len(deliveries[Cur].outcomes) + 1]_vars

\* a redirect was retried and the retry, answered 299, delivered the event
C31_Witness ==
    \E d \in Delivs :
        /\ deliveries[d].outcomes = <<Response(300), Response(299)>>
        /\ deliveries[d].state = "Delivered"
        /\ deliveries[d].sleeps = <<cfg.WebhookBaseDelay>>

\* ------------------------------------------------------------------------
\* Properties of the incident read path and the cache
\* ------------------------------------------------------------------------
\* C9: a GetIncident that starts after UpdateIncident or DeactivateIncident
\* for its id returned success never returns field values from before that
\* mutation: it returns what the mutation wrote, or a still later write.
\* (Stated for the mutations whose cache invalidation succeeded, the case
\* most favourable to the claim.)
C9_GetAfterMutationIsFresh ==
    \A s \in Slots :
        LET g == ops[s] IN
        (g.op = "Get" /\ g.pc = "done" /\ ~g.ret.err /\ g.floor.ver > 0) =>
            \/ g.ret.incident.UpdatedAt >= g.floor.ver
            \/ Fields(g.ret.incident) = g.floor.fields

\* C10: when the cache lookup of GetIncident finds an entry, the call
\* returns that entry at once: it reads no row from the store and writes
\* nothing to the cache.
C10_CacheHitReturnsImmediately ==
    \A s \in Slots :
        LET g == ops[s] IN
        (g.op = "Get" /\ g.hit) =>
            /\ g.pc = "done"
            /\ g.ret.returned
            /\ ~g.ret.err
            /\ g.ret.incident = g.incident
            /\ g.dbReads = 0
            /\ g.cacheSets = 0

\* a call was answered from the entry an earlier call had cached
C10_Witness ==
    \E s \in Slots :
        /\ ops[s].op = "Get" /\ ops[s].hit /\ ops[s].pc = "done"
        /\ cache[ops[s].id] # NoEntry
        /\ UnmarshalIncident(cache[ops[s].id]) = ops[s].ret.incident

\* C11: the cache never fails a read: a GetIncident call whose store read
\* found the row returns that record without error, also when the cache
\* lookup failed with an error and when the cache write failed afterwards;
\* a call returns an error only when its store read failed or found no row.
C11_CacheErrorsNeverFailGet ==
    \A s \in Slots :
        LET g == ops[s] IN
        g.op = "Get" =>
            /\ (g.pc = "done" /\ g.ret.err) => g.dbRead \in {"notfound", "failed"}
            /\ (g.pc = "done" /\ g.dbRead = "row") =>
                  /\ ~g.ret.err
                  /\ g.ret.incident = g.incident
                  /\ g.ret.incident.ID = g.id
            /\ g.cacheErr => (~g.hit /\ g.dbReads = (IF g.pc = "dbGet" THEN 0 ELSE 1))
            /\ g.pc \in {"dbGet", "cacheSet"} => ~g.ret.returned

\* a call returned the record although the cache lookup and the cache write
\* both failed
C11_Witness ==
    \E s \in Slots :
        /\ ops[s].op = "Get" /\ ops[s].pc = "done"
        /\ ops[s].cacheErr /\ ops[s].setErr
        /\ ~ops[s].ret.err
        /\ ops[s].ret.incident = ScanIncident(store[ops[s].id])

\* C12: a GetIncident call that was not answered from the cache and whose
\* store read did not fail with a query error ends with the not-found error
\* exactly when the table has no row with the id: a row is returned whatever
\* its status, and the not-found outcome writes nothing to the cache.
C12_NotFoundIffNoRow ==
    /\ [][\A s \in Slots :
            (ops[s].op = "Get" /\ ops[s].pc = "dbGet" /\ ops'[s] # ops[s]
                /\ ops'[s].dbRead # "failed") =>
                IF store[ops[s].id] = NoRow
                THEN /\ ops'[s].pc = "done"
                     /\ ops'[s].ret.err
                     /\ ops'[s].dbRead = "notfound"
                     /\ cache' = cache
                ELSE /\ ops'[s].pc = "cacheSet"
                     /\ ops'[s].dbRead = "row"
                     /\ ops'[s].incident = ScanIncident(store[ops[s].id])]_vars
    /\ [](\A s \in Slots :
            LET g == ops[s] IN
            (g.op = "Get" /\ g.pc = "done" /\ ~g.hit) =>
                /\ g.dbRead = "notfound" => (g.ret.err /\ g.cacheSets = 0)
                /\ g.dbRead = "row" => (~g.ret.err /\ g.ret.incident = g.incident))

\* one call ended not found while another returned an inactive incident
\* from the store
C12_Witness ==
    /\ \E s \in Slots :
          /\ ops[s].op = "Get" /\ ops[s].pc = "done"
          /\ ops[s].dbRead = "notfound" /\ store[ops[s].id] = NoRow
    /\ \E s \in Slots :
          /\ ops[s].op = "Get" /\ ops[s].pc = "done" /\ ~ops[s].hit
          /\ ~ops[s].ret.err /\ ops[s].ret.incident.Status = "inactive"

\* the calls that write the incidents table
Mutations == {"Create", "Update", "Deactivate"}

\* C13: CreateIncident, UpdateIncident and DeactivateIncident invalidate the
\* cache key of the id only after their own store write succeeded (the table
\* then holds that write or a later one), at most once; a call whose store
\* write failed returns an error and invalidates nothing.
C13_InvalidateOnlyAfterWrite ==
    /\ [](\A s \in Slots :
            LET o == ops[s] IN
            o.op \in Mutations =>
                /\ (o.pc = "invalidate" \/ o.invalidations > 0) => o.wrote > 0
                /\ o.invalidations <= 1
                /\ (o.pc = "done" /\ o.wrote = 0) =>
                      (o.ret.err /\ o.invalidations = 0 /\ ~o.invalidated))
    /\ [][\A s \in Slots :
            (ops[s].op \in Mutations /\ ops[s].pc # "done"
                /\ ops'[s].invalidations > ops[s].invalidations) =>
                /\ ops[s].pc = "invalidate"
                /\ ops[s].wrote > 0
                /\ store[ops[s].id] # NoRow
                /\ store[ops[s].id].updated_at >= ops[s].wrote
                /\ store' = store]_vars

\* an update whose store write failed returned the error, and another call
\* invalidated the key after its write
C13_Witness ==
    /\ \E s \in Slots :
          /\ ops[s].op = "Update" /\ ops[s].pc = "done" /\ ops[s].dbRead = "row"
          /\ ops[s].wrote = 0 /\ ops[s].ret.err /\ ops[s].invalidations = 0
    /\ \E s \in Slots :
          /\ ops[s].op \in Mutations /\ ops[s].pc = "done"
          /\ ops[s].wrote > 0 /\ ops[s].invalidations = 1

\* C14: a failed cache invalidation does not fail CreateIncident,
\* UpdateIncident or DeactivateIncident: the call returns success, and the
\* table holds what the call wrote (or a later write).
C14_InvalidationFailureIsSwallowed ==
    \A s \in Slots :
        LET o == ops[s] IN
        (o.op \in Mutations /\ o.pc = "done" /\ o.invalidations = 1 /\ ~o.invalidated) =>
            /\ o.ret.returned
            /\ ~o.ret.err
            /\ o.wrote > 0
            /\ store[o.id] # NoRow
            /\ store[o.id].updated_at >= o.wrote
            /\ store[o.id].updated_at = o.wrote =>
                  Fields(ScanIncident(store[o.id])) = o.wroteFields

\* a deactivation returned success with the row inactive, while the failed
\* invalidation left the old entry in the cache
C14_Witness ==
    \E s \in Slots :
        /\ ops[s].op = "Deactivate" /\ ops[s].pc = "done"
        /\ ops[s].invalidations = 1 /\ ~ops[s].invalidated
        /\ ~ops[s].ret.err
        /\ store[ops[s].id].status = "inactive"
        /\ cache[ops[s].id] # NoEntry
        /\ cache[ops[s].id].status = "active"

\* C15: UpdateIncident and DeactivateIncident called with an id the table
\* has no row for return the not-found error and change nothing: the call
\* ends at once with no store write and no cache invalidation, and the
\* table and the cache are as before.
C15_MutationOfAbsentIdChangesNothing ==
    /\ [][\A s \in Slots :
            (ops[s].pc \in {"idle", "done"} /\ ops'[s] # ops[s]
                /\ ops'[s].op \in {"Update", "Deactivate"}
                /\ store[ops'[s].id] = NoRow
                /\ ops'[s].dbRead # "failed") =>
                /\ ops'[s].pc = "done"
                /\ ops'[s].ret.err
                /\ ops'[s].dbRead = "notfound"
                /\ store' = store
                /\ cache' = cache]_vars
    /\ [](\A s \in Slots :
            LET o == ops[s] IN
            (o.op \in {"Update", "Deactivate"} /\ o.dbRead = "notfound") =>
                /\ o.pc = "done"
                /\ o.ret.err
                /\ o.wrote = 0
                /\ o.invalidations = 0)

\* an update and a deactivation of an id without a row both ended not found
C15_Witness ==
    /\ \E s \in Slots :
          /\ ops[s].op = "Update" /\ ops[s].pc = "done" /\ ops[s].dbRead = "notfound"
          /\ store[ops[s].id] = NoRow
    /\ \E s \in Slots :
          /\ ops[s].op = "Deactivate" /\ ops[s].pc = "done" /\ ops[s].dbRead = "notfound"
          /\ store[ops[s].id] = NoRow

\* C16: no step removes a row from the incidents table, so the set of ids
\* never shrinks; the store write of DeactivateIncident sets the row's
\* status to inactive and its updated_at, and leaves the rest of the row.
C16_RowsAreNeverRemoved ==
    [][/\ \A id \in Ids : store[id] # NoRow => store'[id] # NoRow
       /\ \A s \in Slots :
            (ops[s].op = "Deactivate" /\ ops[s].pc = "write"
                /\ ops'[s].pc = "invalidate") =>
                store' = [store EXCEPT ![ops[s].id] =
                            [store[ops[s].id] EXCEPT !.status = "inactive",
                                                     !.updated_at = now]]]_vars

\* an incident was deactivated and its row is still in the table
C16_Witness ==
    \E s \in Slots :
        /\ ops[s].op = "Deactivate" /\ ops[s].pc = "done" /\ ~ops[s].ret.err
        /\ store[ops[s].id] # NoRow
        /\ store[ops[s].id].status = "inactive"
        /\ store[ops[s].id].name = "zone"

\* C25: a row that CreateIncident inserts has status active whatever status
\* the request carried, and a row's status turns inactive only in the store
\* write of DeactivateIncident or of an UpdateIncident whose request carries
\* status inactive.
C25_CreatedActiveInactiveOnlyByMutation ==
    [][\A id \in Ids :
        /\ (store[id] = NoRow /\ store'[id] # NoRow) =>
              /\ store'[id].status = "active"
              /\ \E s \in Slots :
                    /\ ops'[s].op = "Create" /\ ops'[s].pc = "invalidate"
                    /\ ops'[s].id = id /\ ops[s].pc \in {"idle", "done"}
                    /\ ops'[s].incident.Status = "active"
        /\ (store[id] # NoRow /\ store[id].status # "inactive"
                /\ store'[id].status = "inactive") =>
              \E s \in Slots :
                  /\ ops[s].pc = "write" /\ ops'[s].pc = "invalidate"
                  /\ ops[s].id = id
                  /\ \/ ops[s].op = "Deactivate"
                     \/ ops[s].op = "Update" /\ ops[s].input.Status = "inactive"]_vars

\* an incident created from a request with status inactive is stored active
C25_Witness ==
    \E s \in Slots :
        /\ ops[s].op = "Create" /\ ops[s].pc = "done" /\ ~ops[s].ret.err
        /\ ops[s].input.Status = "inactive"
        /\ store[ops[s].id].status = "active"
        /\ store[ops[s].id].updated_at = ops[s].wrote

\* slot a holds a completed, successful UpdateIncident or DeactivateIncident
Mutated(a, id) ==
    /\ ops[a].op \in {"Update", "Deactivate"}
    /\ ops[a].pc = "done" /\ ~ops[a].ret.err
    /\ ops[a].id = id

\* ... and its store write is the last one the row has seen
LastWriter(a, id) == Mutated(a, id) /\ store[id].updated_at = ops[a].wrote

\* the fields of a row other than the status
Unstatused(f) ==
    [Name |-> f.Name, Description |-> f.Description, Latitude |-> f.Latitude,
     Longitude |-> f.Longitude, RadiusMeters |-> f.RadiusMeters]

\* C37: last writer wins without field mixing: when no call is under way,
\* the six fields of a row are exactly the request of the UpdateIncident
\* that wrote last, or, if a DeactivateIncident wrote last, status inactive
\* with the other fields as the write before it left them.
C37_LastWriterWinsNoMixing ==
    (\A s \in Slots : ops[s].pc \in {"idle", "done"}) =>
        \A id \in Ids, a \in Slots :
            LastWriter(a, id) =>
                LET now_ == Fields(ScanIncident(store[id])) IN
                IF ops[a].op = "Update"
                THEN now_ = ops[a].input
                ELSE /\ now_.Status = "inactive"
                     /\ now_ = ops[a].wroteFields
                     /\ \A b \in Slots :
                          (nops = 2 /\ b # a /\ Mutated(b, id) /\ ops[b].op = "Update") =>
                              Unstatused(now_) = Unstatused(ops[b].input)

\* an update that read the row before a concurrent deactivation wrote, and
\* wrote after it, has left all six of its fields in the row
C37_Witness ==
    \E u, d \in Slots :
        /\ nops = 2
        /\ Mutated(u, 1) /\ ops[u].op = "Update" /\ ops[u].input.Status = "active"
        /\ Mutated(d, 1) /\ ops[d].op = "Deactivate"
        /\ ops[u].incident.UpdatedAt < ops[d].wrote
        /\ ops[d].wrote < ops[u].wrote
        /\ LastWriter(u, 1)
        /\ store[1].status = "active" /\ store[1].name = ops[u].input.Name

\* C39: DeactivateIncident is idempotent on existing incidents: on a row
\* that is already inactive it is not refused, its write leaves the status
\* inactive and every other field but updated_at as it was, and it issues
\* the cache invalidation like the first time.
C39_DeactivateIsIdempotent ==
    /\ [](\A s \in Slots :
            (ops[s].op = "Deactivate" /\ ops[s].pc = "done" /\ ~ops[s].ret.err) =>
                ops[s].invalidations = 1 /\ ops[s].wrote > 0)
    /\ [][\A s \in Slots :
            /\ (/\ ops[s].pc \in {"idle", "done"}
                /\ ops'[s].op = "Deactivate" /\ ops'[s] # ops[s]
                /\ ops'[s].dbRead = "row") =>
                  ops'[s].pc = "write"
            /\ (ops[s].op = "Deactivate" /\ ops[s].pc = "write"
                   /\ ops'[s].pc = "invalidate") =>
                  LET id == ops[s].id IN
                  /\ store'[id].status = "inactive"
                  /\ store[id].status = "inactive" =>
                        /\ [store'[id] EXCEPT !.updated_at = 0]
                              = [store[id] EXCEPT !.updated_at = 0]
                        /\ store'[id].updated_at > store[id].updated_at]_vars

\* the incident was deactivated twice, both calls succeeded and invalidated
C39_Witness ==
    /\ nops = 2
    /\ \A s \in Slots :
          /\ ops[s].op = "Deactivate" /\ ops[s].pc = "done" /\ ~ops[s].ret.err
          /\ ops[s].id = 1 /\ ops[s].invalidations = 1
    /\ ops[1].wrote < ops[2].wrote
    /\ ops[2].floor.ver = ops[1].wrote
    /\ store[1].status = "inactive" /\ store[1].name = "zone"
    /\ store[1].updated_at = ops[2].wrote

\* C40: cache entries are never fabricated: an entry under the key of an
\* id holds that id and is a version of the row the store holds or held
\* (never a newer one, and equal to the row when their updated_at agree);
\* an entry appears or changes only in the cache write of a GetIncident,
\* which stores what that call read from the store; every other step
\* leaves an entry alone or deletes it.
C40_CacheEntriesNeverFabricated ==
    /\ [](\A id \in Ids :
            cache[id] # NoEntry =>
                /\ cache[id].id = id
                /\ store[id] # NoRow
                /\ cache[id].created_at = store[id].created_at
                /\ cache[id].updated_at <= store[id].updated_at
                /\ cache[id].updated_at = store[id].updated_at =>
                      cache[id] = MarshalIncident(ScanIncident(store[id])))
    /\ [][\A id \in Ids :
            (cache'[id] # cache[id] /\ cache'[id] # NoEntry) =>
                \E o \in Slots :
                    /\ ops[o].op = "Get" /\ ops[o].pc = "cacheSet" /\ ops[o].id = id
                    /\ ops[o].dbRead = "row"
                    /\ ops'[o].pc = "done"
                    /\ cache'[id] = MarshalIncident(ops[o].incident)]_vars
    /\ [][\A o \in Slots :
            /\ (ops[o].op = "Get" /\ ops[o].pc = "dbGet" /\ ops'[o].pc = "cacheSet") =>
                  /\ store[ops[o].id] # NoRow
                  /\ ops'[o].incident = ScanIncident(store[ops[o].id])
            /\ (ops[o].op \in Mutations /\ ops'[o] # ops[o] /\ ops'[o].op = ops[o].op) =>
                  \A id \in Ids : cache'[id] \in {cache[id], NoEntry}]_vars

\* the cache holds the record from before an update: a version the store
\* held earlier, written by a GetIncident
C40_Witness ==
    \E g \in Slots :
        /\ ops[g].op = "Get" /\ ops[g].pc = "done" /\ ops[g].id = 1
        /\ ops[g].cacheSets = 1 /\ ~ops[g].setErr
        /\ cache[1] = MarshalIncident(ops[g].incident)
        /\ cache[1].updated_at < store[1].updated_at
        /\ cache[1].name = "zone" /\ store[1].name = "renamed"

\* ------------------------------------------------------------------------
\* Properties of the containment query
\* ------------------------------------------------------------------------
\* the incidents of a list, by index
Listed(list) == {list[i] : i \in 1..Len(list)}

\* C17: the containment query never returns an incident whose status is
\* inactive: every incident of a query result was read from a row with
\* status active, and so is every incident of every event CheckLocation
\* pushed and of every payload on the queue.
C17_InactiveIsNeverReturned ==
    /\ \A c \in CallIds :
          \A inc \in Listed(calls[c].activeIncident) :
              /\ inc.Status = "active"
              /\ store[inc.ID] # NoRow
              /\ store[inc.ID].status = "active"
    /\ \A k \in 1..Len(pushLog) :
          \A inc \in Listed(pushLog[k].event.Incidents) :
              inc.Status = "active" /\ store[inc.ID].status = "active"
    /\ \A n \in 1..Len(queue) :
          \A inc \in Listed(Unmarshal(queue[n].payload).Incidents) :
              inc.Status = "active" /\ store[inc.ID].status = "active"

\* a check at a point inside an inactive and an active incident pushed an
\* event with the active one only
C17_Witness ==
    \E c \in CallIds, a, b \in Ids :
        /\ calls[c].pc = "done" /\ calls[c].published
        /\ store[a] # NoRow /\ store[a].status = "inactive"
        /\ ST_DWithin(store[a].location, ST_MakePoint(calls[c].lon, calls[c].lat),
                      store[a].radius_meters)
        /\ store[b] # NoRow /\ store[b].status = "active"
        /\ {inc.ID : inc \in Listed(calls[c].activeIncident)} = {b}
        /\ \E n \in 1..Len(queue) :
              {inc.ID : inc \in Listed(Unmarshal(queue[n].payload).Incidents)} = {b}

\* meters between the centre of a row and the point (lat, lon)
MetersFrom(row, lat, lon) ==
    1000 * (Abs(ST_Y(row.location) - lat) + Abs(ST_X(row.location) - lon))

\* C18: the containment query for a point returns exactly the active
\* incidents whose centre is at most radius_meters away, each once and as
\* its row reads: at a distance equal to the radius the incident is
\* returned, at a greater distance it is not, at the centre it is returned
\* for every radius; an empty result is a list, not an error.
C18_ExactlyActiveWithinRadius ==
    \A c \in CallIds :
        LET call == calls[c]
            found == call.activeIncident
        IN call.queried =>
            /\ \A i, j \in 1..Len(found) : i # j => found[i].ID # found[j].ID
            /\ \A inc \in Listed(found) : inc = ScanIncident(store[inc.ID])
            /\ {inc.ID : inc \in Listed(found)} =
                  {id \in Ids : /\ store[id] # NoRow
                                /\ store[id].status = "active"
                                /\ MetersFrom(store[id], call.lat, call.lon)
                                      <= store[id].radius_meters}
            /\ \A id \in Ids :
                  (store[id] # NoRow /\ store[id].status = "active") =>
                      LET d == MetersFrom(store[id], call.lat, call.lon)
                          in == \E inc \in Listed(found) : inc.ID = id
                      IN /\ d = store[id].radius_meters => in
                         /\ d > store[id].radius_meters => ~in
                         /\ (d = 0 /\ store[id].radius_meters > 0) => in
            /\ call.pc = "save"
            /\ ~call.ret.returned

\* a query returned the incident whose boundary the point lies on and not
\* the one the point lies outside of, and another query returned an empty list
C18_Witness ==
    /\ \E c \in CallIds, a, b \in Ids :
          /\ calls[c].queried
          /\ store[a] # NoRow /\ store[a].status = "active"
          /\ MetersFrom(store[a], calls[c].lat, calls[c].lon) = store[a].radius_meters
          /\ store[b] # NoRow /\ store[b].status = "active"
          /\ MetersFrom(store[b], calls[c].lat, calls[c].lon) > store[b].radius_meters
          /\ {inc.ID : inc \in Listed(calls[c].activeIncident)} = {a}
    /\ \E c \in CallIds : calls[c].queried /\ calls[c].activeIncident = <<>>

\* ------------------------------------------------------------------------
\* Properties of the API-key guard
\* ------------------------------------------------------------------------
\* the key a request presents: X-API-Key, or the Bearer token of
\* Authorization when X-API-Key is empty
PresentedKey(req) ==
    IF req.xAPIKey # <<>> THEN req.xAPIKey
    ELSE IF Len(req.authorization) >= 1 /\ req.authorization[1] = "Bearer "
    THEN Tail(req.authorization)
    ELSE <<>>

ConfiguredKeys == {cfg.APIKeys[i] : i \in 1..Len(cfg.APIKeys)}

GuardedHandlers ==
    {"createIncident", "listIncidents", "getIncident", "updateIncident",
     "deleteIncident", "getStats"}

\* a refused request is answered 401 and neither handler nor service ran;
\* the public routes run their handler without the middleware
GuardOutcome(req, admitted) ==
    IF req.route.handler \in GuardedHandlers
    THEN /\ req.middlewareRan
         /\ req.handlerRan <=> admitted
         /\ ~req.handlerRan =>
               req.abortStatus = 401 /\ ~req.serviceCalled
    ELSE /\ req.route.handler \in {"checkLocation", "healthCheck"}
         /\ ~req.middlewareRan
         /\ req.handlerRan
         /\ req.abortStatus = 0

C32_PushNeverBlocksOnWorker ==
    /\ [](\A c \in CallIds :
            /\ calls[c].pc = "find" => ENABLED CLFind(c)
            /\ calls[c].pc = "save" => ENABLED CLSave(c, TRUE)
            /\ calls[c].pc = "publish" =>
                  (ENABLED CLPublish(c, TRUE)) /\ (ENABLED CLPublish(c, FALSE))
            /\ calls[c].pc \in {"find", "save", "publish", "done"})
    /\ [][\A c \in CallIds :
            (calls[c].pc = "publish" /\ calls'[c].pc = "done") =>
                /\ worker' = worker /\ deliveries' = deliveries
                /\ IF calls'[c].published
                   THEN /\ Len(queue') = Len(queue) + 1
                        /\ SubSeq(queue', 2, Len(queue')) = queue
                   ELSE queue' = queue]_vars

\* the worker has stopped with the first call's event still in the queue
\* and the second call is about to push
C32_Witness ==
    /\ worker.pc = "stopped"
    /\ Len(calls) = 2
    /\ calls[1].pc = "done" /\ calls[1].published
    /\ Len(queue) = 1
    /\ calls[2].pc = "publish"

\* the payload is the JSON of the event that a CheckLocation call pushed
\* after its containment query had returned at least one incident
PushedByDangerousCheck(payload, n) ==
    /\ n \in 1..Len(pushLog)
    /\ LET log == pushLog[n] IN
       /\ log.ok
       /\ log.call \in CallIds
       /\ LET call == calls[log.call] IN
          /\ call.queried /\ call.published
          /\ Len(call.activeIncident) >= 1
          /\ payload.json
          /\ payload.user_id = call.userID
          /\ payload.latitude = call.lat /\ payload.longitude = call.lon
          /\ payload.is_dangerous = TRUE
          /\ payload.has_incidents
          /\ payload.incidents = call.activeIncident
          /\ \A i \in 1..Len(payload.incidents) :
                \E id \in Ids : store[id] # NoRow /\ payload.incidents[i].ID = id

\* C33: events are never fabricated: every element of the queue and every
\* body the worker sends is the event a CheckLocation call pushed after its
\* query returned at least one incident, with is_dangerous true and a
\* non-empty incident list.
C33_EventsAreNeverFabricated ==
    /\ \A k \in 1..Len(queue) : PushedByDangerousCheck(queue[k].payload, queue[k].push)
    /\ \A d \in Delivs :
          /\ PushedByDangerousCheck(deliveries[d].payload, deliveries[d].push)
          /\ \A j \in 1..Len(deliveries[d].requests) :
                PushedByDangerousCheck(deliveries[d].requests[j].body, deliveries[d].push)
    /\ \A c \in CallIds :
          (calls[c].queried /\ Len(calls[c].activeIncident) = 0) =>
              \A n \in 1..Len(pushLog) : pushLog[n].call # c

\* the event of a dangerous check was sent to the subscriber and a check
\* outside every zone pushed nothing
C33_Witness ==
    /\ Len(deliveries) >= 1 /\ Len(deliveries[1].requests) = 1
    /\ \E c \in CallIds :
          /\ calls[c].pc = "done" /\ Len(calls[c].activeIncident) = 0
    /\ \E c \in CallIds :
          /\ Len(pushLog) = 1
          /\ pushLog[1].call = c /\ Len(calls[c].activeIncident) = 1

\* ------------------------------------------------------------------------
\* Properties of the service with all of its operations (SpecRecords)
\* ------------------------------------------------------------------------
\* C34: LocationCheck records are append-only: whatever operation takes a
\* step, every record that exists keeps its place and all of its values,
\* and the only step that adds a record is the save of a location check,
\* which adds exactly one.
C34_LocationChecksAppendOnly ==
    [][/\ Len(checks') >= Len(checks)
       /\ \A i \in 1..Len(checks) : checks'[i] = checks[i]
       /\ Len(checks') > Len(checks) =>
             /\ Len(checks') = Len(checks) + 1
             /\ \E c \in CallIds : calls[c].pc = "save" /\ calls'[c].pc # "save"]_vars

\* two records exist, and a deactivation of the incident was carried out
\* between the two saves
C34_Witness ==
    /\ Len(checks) = 2
    /\ nops = 2
    /\ \E s \in Slots :
          ops[s].op = "Deactivate" /\ ops[s].pc = "done" /\ ~ops[s].ret.err
    /\ store[1].status = "inactive"
    /\ store[1].updated_at > checks[1].checked_at
    /\ checks[2].checked_at > store[1].updated_at

\* ------------------------------------------------------------------------
\* Properties of the cache under expiry (FairIncident)
\* ------------------------------------------------------------------------
\* the cache holds an entry for id that is not the store's record
Stale(id) ==
    /\ cache[id] # NoEntry
    /\ \/ store[id] = NoRow
       \/ cache[id] # MarshalIncident(ScanIncident(store[id]))

\* C35: a stale entry self-heals: whenever the entry of an id differs from
\* the store's record it is eventually removed or replaced, and a
\* GetIncident that then misses the cache takes the record it returns from
\* the store as it is at that read.
C35_StaleEntrySelfHeals ==
    /\ \A id \in Ids : [](Stale(id) => <>(~Stale(id)))
    /\ [][\A o \in Slots :
            (ops[o].op = "Get" /\ ops[o].pc = "dbGet" /\ ops'[o].pc = "cacheSet") =>
                ops'[o].incident = ScanIncident(store[ops[o].id])]_vars

\* a GetIncident cached the record from before an update whose invalidation
\* failed; no other call was made, and the entry is gone
C35_Witness ==
    \E g, u \in Slots :
        /\ nops = 2
        /\ ops[g].op = "Get" /\ ops[g].pc = "done" /\ ops[g].id = 1
        /\ ops[g].cacheSets = 1 /\ ~ops[g].setErr
        /\ ops[g].incident # ScanIncident(store[1])
        /\ ops[u].op = "Update" /\ ops[u].pc = "done" /\ ops[u].id = 1
        /\ ops[u].invalidations = 1 /\ ~ops[u].invalidated
        /\ cache[1] = NoEntry

\* the location check of call c ran after the successful deactivation that
\* slot d records
CheckedAfterDeactivate(c, d) ==
    /\ ops[d].op = "Deactivate" /\ ops[d].pc = "done" /\ ~ops[d].ret.err
    /\ \E k \in 1..Len(checks) :
          checks[k].call = c /\ checks[k].checked_at > ops[d].wrote

\* C36: once DeactivateIncident has succeeded for an incident, no
\* containment query that starts afterwards returns that incident,
\* whatever was created, updated, deactivated or checked in between.
C36_NeverReturnedAfterDeactivate ==
    \A c \in CallIds, d \in Slots :
        CheckedAfterDeactivate(c, d) =>
            \A i \in 1..Len(calls[c].activeIncident) :
                calls[c].activeIncident[i].ID # ops[d].id

\* the columns of a row that UpdateIncident may change, blanked
Unchangeable(row) ==
    [row EXCEPT !.name = "", !.description = "", !.location = ST_MakePoint(0, 0),
                !.radius_meters = 0, !.status = "", !.updated_at = 0]

\* C38: UpdateIncident changes only name, description, latitude, longitude,
\* radius, status and updated_at of the incident with the given id: its id
\* and created_at stay, no other incident record changes and no
\* LocationCheck record changes, at any step of the call.
C38_UpdateChangesOnlyItsFields ==
    [][\A s \in Slots :
        (ops[s].op = "Update" /\ ops'[s].op = "Update" /\ ops'[s] # ops[s]) =>
            /\ checks' = checks
            /\ \A id \in Ids :
                  IF id = ops[s].id /\ store[id] # NoRow
                  THEN /\ store'[id] # NoRow
                       /\ Unchangeable(store'[id]) = Unchangeable(store[id])
                       /\ store'[id].id = id
                  ELSE store'[id] = store[id]
            /\ ops[s].pc # "write" => store' = store]_vars

\* an update rewrote incident 1 while a second incident and a LocationCheck
\* record existed
C38_Witness ==
    \E s \in Slots :
        /\ ops[s].op = "Update" /\ ops[s].pc = "done" /\ ~ops[s].ret.err
        /\ ops[s].id = 1 /\ ops[s].input.Name = "renamed"
        /\ store[1].name = "renamed" /\ store[1].updated_at = ops[s].wrote
        /\ store[1].created_at = 0
        /\ store[2] # NoRow /\ store[2].created_at < ops[s].wrote
        /\ Len(checks) >= 1 /\ checks[1].checked_at < ops[s].wrote

====
